---- MODULE Spec2Model ----
(***************************************************************************)
(* actix-web-opentelemetry: the server request tracer                      *)
(* (RequestTracingMiddleware, current and legacy), the request metrics     *)
(* middleware (RequestMetricsMiddleware), the Prometheus scrape handler,   *)
(* the route formatters, the client request tracer                         *)
(* (InstrumentedClientRequest) and the header carriers that join them.     *)
(*                                                                         *)
(* Header values that the code parses or validates are sequences of        *)
(* character classes; header names are strings of a finite universe with   *)
(* the lower-casing HeaderName::from_str applies.  Paths and routes are    *)
(* sequences of one-character strings, so that a formatter is computed     *)
(* over the characters it matches.  A request is its request line          *)
(* (method, path, query, matched pattern) and its headers; the attributes  *)
(* taken from the connection (host, scheme, peer) are not part of the      *)
(* spans here.  Span and trace ids are those a recording tracer gives out, *)
(* unique per span.                                                        *)
(***************************************************************************)
EXTENDS Integers, Sequences, FiniteSets, TLC

(***************************************************************************)
(* Characters.  0..15 are the lower-case hex digits; the others stand for  *)
(* the classes the http crate's header validation tells apart.             *)
(***************************************************************************)
HexDigits == 0..15
DASH == 16          \* '-'
VISIBLE == 17       \* a visible ASCII character that is no hex digit ('z')
CONTROL == 18       \* a control character (< 0x20 other than tab, or 0x7f)
OBSTEXT == 19       \* a byte >= 0x80

TraceIdHexLen == 32
SpanIdHexLen == 16

\* format!("{:0w$x}", n)
RECURSIVE Hex(_, _)
Hex(n, w) == IF w = 0 THEN <<>> ELSE Append(Hex(n \div 16, w - 1), n % 16)

IsHex(s) == \A i \in 1..Len(s) : s[i] \in HexDigits

\* u128::from_str_radix(s, 16) for a string of hex digits
RECURSIVE HexValue(_)
HexValue(s) ==
    IF s = <<>> THEN 0
    ELSE HexValue(SubSeq(s, 1, Len(s) - 1)) * 16 + s[Len(s)]

\* str::split('-')
RECURSIVE SplitDash(_)
SplitDash(s) ==
    IF \A i \in 1..Len(s) : s[i] # DASH THEN <<s>>
    ELSE LET i == CHOOSE k \in 1..Len(s) :
                      s[k] = DASH /\ \A j \in 1..(k - 1) : s[j] # DASH
         IN  <<SubSeq(s, 1, i - 1)>> \o SplitDash(SubSeq(s, i + 1, Len(s)))

(***************************************************************************)
(* Trace contexts.                                                         *)
(***************************************************************************)
RootContext == [trace |-> 0, span |-> 0, sampled |-> FALSE, remote |-> FALSE]

IsValid(cx) == cx.trace # 0 /\ cx.span # 0

\* what propagation carries of a context
Propagated(cx) == [trace |-> cx.trace, span |-> cx.span, sampled |-> cx.sampled]

(***************************************************************************)
(* Header names and values (http::header).                                 *)
(***************************************************************************)
HeaderNames ==
    {"traceparent", "tracestate", "X-B3", "X-B3-TraceId", "X-B3-SpanId",
     "X-B3-Sampled", "x-b3", "x-b3-traceid", "x-b3-spanid", "x-b3-sampled",
     "user-agent", "content-length", "", "bad key"}

\* names that are not made of token characters only
InvalidHeaderNames == {"", "bad key"}

\* HeaderName::from_str: Err for an invalid name, else the lower-cased name
LowerCase(name) ==
    CASE name = "X-B3" -> "x-b3"
      [] name = "X-B3-TraceId" -> "x-b3-traceid"
      [] name = "X-B3-SpanId" -> "x-b3-spanid"
      [] name = "X-B3-Sampled" -> "x-b3-sampled"
      [] OTHER -> name

HeaderNameFromStr(name) ==
    IF name \in InvalidHeaderNames
    THEN [ok |-> FALSE, name |-> ""]
    ELSE [ok |-> TRUE, name |-> LowerCase(name)]

\* HeaderValue::from_str: every byte is b >= 32 && b != 127 || b == '\t'
HeaderValueFromStr(value) ==
    [ok |-> \A i \in 1..Len(value) : value[i] # CONTROL, value |-> value]

\* HeaderValue::to_str: every byte is visible ASCII
None == [some |-> FALSE, v |-> <<>>]
Some(v) == [some |-> TRUE, v |-> v]

ToStr(value) ==
    IF \A i \in 1..Len(value) : value[i] \notin {CONTROL, OBSTEXT}
    THEN Some(value) ELSE None

\* HeaderMap: a function from lower-case names to values
EmptyHeaders == [n \in {} |-> <<>>]

HeaderInsert(headers, name, value) ==
    [k \in DOMAIN headers \cup {name} |-> IF k = name THEN value ELSE headers[k]]

\* HeaderMap::get(&str): the key is looked up lower-cased
HeaderGet(headers, key) ==
    LET n == HeaderNameFromStr(key)
    IN  IF n.ok /\ n.name \in DOMAIN headers THEN Some(headers[n.name]) ELSE None

(***************************************************************************)
(* The carriers.                                                           *)
(***************************************************************************)
\* variants of ActixClientCarrier::set: the name kept as written; a value
\* already present kept; a name with an upper-case letter refused
ActixClientCarrierSetNoLower(headers, key, value) ==
    LET v == HeaderValueFromStr(value)
    IN  IF key \in InvalidHeaderNames \/ ~v.ok
        THEN [ok |-> FALSE, headers |-> headers]
        ELSE [ok |-> TRUE, headers |-> HeaderInsert(headers, key, v.value)]

ActixClientCarrierSetKeep(headers, key, value) ==
    LET n == HeaderNameFromStr(key)
        v == HeaderValueFromStr(value)
    IN  IF ~n.ok \/ ~v.ok
        THEN [ok |-> FALSE, headers |-> headers]
        ELSE [ok |-> TRUE,
              headers |-> IF n.name \in DOMAIN headers THEN headers
                          ELSE HeaderInsert(headers, n.name, v.value)]

ActixClientCarrierSetLowerOnly(headers, key, value) ==
    LET n == HeaderNameFromStr(key)
        v == HeaderValueFromStr(value)
    IN  IF ~n.ok \/ ~v.ok \/ n.name # key
        THEN [ok |-> FALSE, headers |-> headers]
        ELSE [ok |-> TRUE, headers |-> HeaderInsert(headers, n.name, v.value)]

\* ActixClientCarrier::set: panics on an invalid name or value
ActixClientCarrierSet(headers, key, value) ==
    LET n == HeaderNameFromStr(key)
        v == HeaderValueFromStr(value)
    IN  IF ~n.ok \/ ~v.ok
        THEN [ok |-> FALSE, headers |-> headers]
        ELSE [ok |-> TRUE, headers |-> HeaderInsert(headers, n.name, v.value)]

\* a variant of RequestHeaderCarrier::get: the bytes that are not text skipped
RequestHeaderCarrierGetLossy(headers, key) ==
    LET h == HeaderGet(headers, key)
    IN  IF h.some
        THEN Some(SelectSeq(h.v, LAMBDA c : c \notin {CONTROL, OBSTEXT}))
        ELSE None

\* RequestHeaderCarrier::get
RequestHeaderCarrierGet(headers, key) ==
    LET h == HeaderGet(headers, key)
    IN  IF h.some THEN ToStr(h.v) ELSE None

(***************************************************************************)
(* The propagators (the configured wire format).                           *)
(***************************************************************************)
StandardFormats == {"tracecontext", "b3", "b3single"}

\* a propagator supplied by the application, whose fields are its own
Formats == StandardFormats \cup {"custom"}

Flag(b) == IF b THEN 1 ELSE 0

\* "00-{trace_id:032x}-{span_id:016x}-{flags:02x}"
TraceParent(cx) ==
    <<0, 0, DASH>> \o Hex(cx.trace, TraceIdHexLen) \o <<DASH>>
        \o Hex(cx.span, SpanIdHexLen) \o <<DASH>> \o Hex(Flag(cx.sampled), 2)

\* X-B3: {trace_id}-{span_id}-{sampling_state}
B3Single(cx) ==
    Hex(cx.trace, TraceIdHexLen) \o <<DASH>> \o Hex(cx.span, SpanIdHexLen)
        \o <<DASH, Flag(cx.sampled)>>

\* the fields a standard propagator hands to Injector::set, in order;
\* nothing for a context without a valid span context
InjectFields(fmt, cx) ==
    IF ~IsValid(cx) THEN <<>>
    ELSE CASE fmt = "tracecontext" ->
                <<<<"traceparent", TraceParent(cx)>>, <<"tracestate", <<>>>>>>
           [] fmt = "b3" ->
                <<<<"X-B3-TraceId", Hex(cx.trace, TraceIdHexLen)>>,
                  <<"X-B3-SpanId", Hex(cx.span, SpanIdHexLen)>>,
                  <<"X-B3-Sampled", <<Flag(cx.sampled)>>>>>>
           [] fmt = "b3single" -> <<<<"X-B3", B3Single(cx)>>>>
           [] OTHER -> <<>>

\* what an application-supplied propagator may hand to Injector::set
CustomFields ==
    {<<<<"user-agent", <<VISIBLE>>>>>>,
     <<<<"bad key", <<VISIBLE>>>>>>,
     <<<<"", <<VISIBLE>>>>>>,
     <<<<"user-agent", <<VISIBLE, CONTROL>>>>>>}

Emitted(fmt, cx) ==
    IF fmt = "custom" THEN CustomFields ELSE {InjectFields(fmt, cx)}

\* the header keys a format reads and writes
PropagationKeys(fmt) ==
    CASE fmt = "tracecontext" -> {"traceparent", "tracestate"}
      [] fmt = "b3" -> {"x-b3-traceid", "x-b3-spanid", "x-b3-sampled"}
      [] fmt = "b3single" -> {"x-b3"}
      [] OTHER -> {}

\* ids are read from fixed-width lower-case hex
ParseId(s, w) == IF Len(s) = w /\ IsHex(s) THEN HexValue(s) ELSE 0

RemoteContext(trace, span, sampled) ==
    [trace |-> trace, span |-> span, sampled |-> sampled, remote |-> TRUE]

\* the fields a propagator reads through the carrier's get
ParseSpanContext(fmt, headers) ==
    CASE fmt = "tracecontext" ->
            LET h == RequestHeaderCarrierGet(headers, "traceparent")
                parts == SplitDash(h.v)
            IN  IF h.some /\ Len(parts) = 4 /\ parts[1] = <<0, 0>>
                     /\ Len(parts[4]) = 2 /\ IsHex(parts[4])
                THEN RemoteContext(ParseId(parts[2], TraceIdHexLen),
                                   ParseId(parts[3], SpanIdHexLen),
                                   HexValue(parts[4]) % 2 = 1)
                ELSE RootContext
      [] fmt = "b3" ->
            LET t == RequestHeaderCarrierGet(headers, "X-B3-TraceId")
                s == RequestHeaderCarrierGet(headers, "X-B3-SpanId")
                f == RequestHeaderCarrierGet(headers, "X-B3-Sampled")
            IN  IF t.some /\ s.some
                THEN RemoteContext(ParseId(t.v, TraceIdHexLen),
                                   ParseId(s.v, SpanIdHexLen),
                                   f.some /\ f.v = <<1>>)
                ELSE RootContext
      [] fmt = "b3single" ->
            LET h == RequestHeaderCarrierGet(headers, "X-B3")
                parts == SplitDash(h.v)
            IN  IF h.some /\ Len(parts) \in 2..4
                THEN RemoteContext(ParseId(parts[1], TraceIdHexLen),
                                   ParseId(parts[2], SpanIdHexLen),
                                   Len(parts) >= 3 /\ parts[3] = <<1>>)
                ELSE RootContext
      [] OTHER -> RootContext

\* the span context the headers carry, or the empty one when the headers are
\* absent, unreadable or malformed, or the ids not valid
ExtractSpanContext(fmt, headers) ==
    LET sc == ParseSpanContext(fmt, headers)
    IN  IF IsValid(sc) THEN sc ELSE RootContext

\* a variant of the extraction that has not read the headers when the span
\* is started: the context is the one that was current
ExtractAfterStart(fmt, headers, current) == current

\* propagator.extract(carrier): the current context with the remote span
\* context, or the current context unchanged when none could be read
Extract(fmt, headers, current) ==
    LET sc == ExtractSpanContext(fmt, headers)
    IN  IF IsValid(sc) THEN sc ELSE current

\* inject_context(cx, &mut ActixClientCarrier): Injector::set for every field
\* in order; the first panic ends it
RECURSIVE SetAll(_, _)
SetAll(headers, fields) ==
    IF fields = <<>> THEN [ok |-> TRUE, headers |-> headers]
    ELSE LET r == ActixClientCarrierSet(headers, fields[1][1], fields[1][2])
         IN  IF r.ok THEN SetAll(r.headers, Tail(fields)) ELSE r

(***************************************************************************)
(* Spans, as the tracers see them through the telemetry SDK: an id that is *)
(* unique per span, the parent context, the attributes and status written, *)
(* and the log of the calls the tracers made on the span.                  *)
(***************************************************************************)
MaxSpans == 2

\* a status description: fixed text, and the code or error it names
Description(text, code, err) == [text |-> text, code |-> code, err |-> err]
NoDescription == Description("", 0, "")

Unset == [code |-> "Unset", description |-> NoDescription]

\* tracer.build / start_with_context of a span builder with a name, a kind and
\* attributes: a child of the parent context, or a root span with a trace id
\* of its own
StartSpan(id, name, kind, owner, parent, attrs) ==
    [name |-> name, kind |-> kind, owner |-> owner, parent |-> parent,
     cx |-> [trace |-> IF IsValid(parent) THEN parent.trace ELSE 256 + id,
             span |-> id,
             sampled |-> IF IsValid(parent) THEN parent.sampled ELSE TRUE,
             remote |-> FALSE],
     attrs |-> attrs, events |-> <<>>, status |-> Unset, log |-> <<>>,
     ended |-> FALSE]

\* Span::set_attribute: recorded while the span is not ended
SetAttribute(span, key, value) ==
    [span EXCEPT !.attrs = IF span.ended THEN @ ELSE Append(@, <<key, value>>),
                 !.log = Append(@, "set_attribute")]

\* Span::set_status
SetStatus(span, status) ==
    [span EXCEPT !.status = IF span.ended \/ status.code = "Unset" THEN @ ELSE status,
                 !.log = Append(@, "set_status")]

\* Span::add_event
AddEvent(span, event) ==
    [span EXCEPT !.events = IF span.ended THEN @ ELSE Append(@, event),
                 !.log = Append(@, "add_event")]

\* Span::end
EndSpan(span) == [span EXCEPT !.ended = TRUE, !.log = Append(@, "end")]

Count(log, op) == Cardinality({i \in 1..Len(log) : log[i] = op})

(***************************************************************************)
(* Results of the inner service and of the outbound send.                  *)
(***************************************************************************)
Pending == [ok |-> FALSE, status |-> 0, err |-> ""]
Ok(status) == [ok |-> TRUE, status |-> status, err |-> ""]
Err(e) == [ok |-> FALSE, status |-> 0, err |-> e]

\* http::StatusCode holds 100..=999
AllStatusCodes == 100..999
Errors == {"Timeout", "Connect"}

Outcomes(codes) == {Ok(c) : c \in codes} \cup {Err(e) : e \in Errors}

\* format!("{:?}", err)
Debug(e) == Description("{:?}", 0, e)

\* StatusCode::canonical_reason: Some for the registered codes
Registered ==
    (100..102) \cup (200..208) \cup {226} \cup (300..305) \cup {307, 308}
        \cup (400..418) \cup (421..424) \cup {426, 428, 429, 431, 451}
        \cup (500..508) \cup {510, 511}

CanonicalReason(code) ==
    IF code \in Registered THEN Some(<<"reason", code>>) ELSE None

(***************************************************************************)
(* Route formatters, middleware/route_formatter.rs and route_formatter.rs. *)
(* Paths and routes are sequences of one-character strings.                *)
(***************************************************************************)
HexChars ==
    {"0", "1", "2", "3", "4", "5", "6", "7", "8", "9",
     "a", "b", "c", "d", "e", "f", "A", "B", "C", "D", "E", "F"}

DigitChars == {"0", "1", "2", "3", "4", "5", "6", "7", "8", "9"}

RECURSIVE Repeat(_, _)
Repeat(c, n) == IF n = 0 THEN <<>> ELSE <<c>> \o Repeat(c, n - 1)

\* UUID_REGEX: "h" stands for [0-9a-fA-F], "-" for the dash
UuidShape ==
    Repeat("h", 8) \o <<"-">> \o Repeat("h", 4) \o <<"-">> \o Repeat("h", 4)
        \o <<"-">> \o Repeat("h", 4) \o <<"-">> \o Repeat("h", 12)

UUID_REGEX == [kind |-> "shape", shape |-> UuidShape]

\* r"\d+"
DIGITS_REGEX == [kind |-> "digits", shape |-> <<>>]

\* the length of the run of digits that starts at p
RECURSIVE DigitRun(_, _)
DigitRun(s, p) ==
    IF p > Len(s) \/ s[p] \notin DigitChars THEN 0 ELSE 1 + DigitRun(s, p + 1)

\* the length of the match of the regex that starts at p, 0 when there is none
MatchLen(re, s, p) ==
    IF re.kind = "digits" THEN DigitRun(s, p)
    ELSE IF /\ p + Len(re.shape) - 1 <= Len(s)
            /\ \A k \in 1..Len(re.shape) :
                  IF re.shape[k] = "h" THEN s[p + k - 1] \in HexChars
                  ELSE s[p + k - 1] = re.shape[k]
         THEN Len(re.shape) ELSE 0

\* the places at or after p where a match starts
MatchesFrom(re, s, p) == {q \in p..Len(s) : MatchLen(re, s, q) > 0}

\* the first of them
Leftmost(places) == CHOOSE q \in places : \A r \in places : q <= r

\* a variant of Regex::replace_all: Regex::replace, the first match only
ReplaceFirst(re, s, rep) ==
    LET places == MatchesFrom(re, s, 1)
    IN  IF places = {} THEN s
        ELSE LET q == Leftmost(places)
             IN  SubSeq(s, 1, q - 1) \o rep
                    \o SubSeq(s, q + MatchLen(re, s, q), Len(s))

\* Regex::replace_all: the matches, leftmost first and not overlapping, are
\* replaced and the text between them copied
RECURSIVE ReplaceAllFrom(_, _, _, _)
ReplaceAllFrom(re, s, rep, p) ==
    LET places == MatchesFrom(re, s, p)
    IN  IF places = {} THEN SubSeq(s, p, Len(s))
        ELSE LET q == Leftmost(places)
             IN  SubSeq(s, p, q - 1) \o rep
                    \o ReplaceAllFrom(re, s, rep, q + MatchLen(re, s, q))

ReplaceAll(re, s, rep) == ReplaceAllFrom(re, s, rep, 1)

\* RegexFormatter::new(re, replacement)
RegexFormatter(re, replacement) == [regex |-> re, replacement |-> replacement]

\* RegexFormatter::format
RegexFormatterFormat(f, path) == ReplaceAll(f.regex, path, f.replacement)

\* PassThroughFormatter::format
PassThroughFormatterFormat(path) == path

\* a variant of UuidWildcardFormatter: a hex digit as the replacement
UuidWildcardFormatterFormatHex(path) ==
    RegexFormatterFormat(RegexFormatter(UUID_REGEX, <<"0">>), path)

\* UuidWildcardFormatter::default().format
UuidWildcardFormatterFormat(path) ==
    RegexFormatterFormat(RegexFormatter(UUID_REGEX, <<"*">>), path)

\* UuidWildcardFormatter::format of route_formatter.rs
LegacyUuidWildcardFormatterFormat(uri) == ReplaceAll(UUID_REGEX, uri, <<"*">>)

\* the formatters an application configures: none, the UUID wildcard, the
\* numeric formatter of the documentation, the pass-through
RouteFormatters == {"none", "uuid", "numeric", "passthrough"}

\* formatter.format(path) for the configured formatter
Format(formatter, path) ==
    CASE formatter = "uuid" -> UuidWildcardFormatterFormat(path)
      [] formatter = "numeric" ->
            RegexFormatterFormat(RegexFormatter(DIGITS_REGEX, <<":", "i", "d">>), path)
      [] formatter = "passthrough" -> PassThroughFormatterFormat(path)
      [] OTHER -> path

(***************************************************************************)
(* The server request tracer, middleware/trace.rs.                         *)
(***************************************************************************)
\* the span status for a response status
ServerStatus(code) ==
    CASE code \in 100..399 -> "OK"
      [] code = 401 -> "Unauthenticated"
      [] code = 403 -> "PermissionDenied"
      [] code = 404 -> "NotFound"
      [] code = 429 -> "ResourceExhausted"
      [] code \in 400..499 -> "InvalidArgument"
      [] code = 501 -> "Unimplemented"
      [] code = 503 -> "Unavailable"
      [] code = 504 -> "DeadlineExceeded"
      [] code \in 500..599 -> "Internal"
      [] OTHER -> "Unknown"

\* api::StatusCode: every code but OK reports a failure
IsErrorStatus(status) == status.code \notin {"Unset", "OK"}

VARIABLES
    middleware,     \* which RequestTracingMiddleware the application wraps
    propagator,     \* the wire format configured at process start
    route_formatter,\* the route formatter the middlewares are built with
    spans,          \* spans[id]: the spans started so far
    srv,            \* srv[i]: the inbound requests the server tracer has seen
    cli,            \* cli[j]: the outbound requests the client tracer wraps
    rt,             \* an inject/extract round trip through the carriers
    active,         \* the worker's stack of attached contexts / active spans
    met,            \* met[k]: the inbound requests the metrics middleware has seen
    metrics,        \* the instruments of struct Metrics
    rf,             \* a path put through a route formatter
    scrape          \* the Prometheus registry and the scrapes answered from it

config == <<middleware, propagator, route_formatter>>

vars == <<middleware, propagator, route_formatter, spans, srv, cli, rt, active,
          met, metrics, rf, scrape>>

(***************************************************************************)
(* The ambient current context of the worker.                              *)
(***************************************************************************)
\* Context::current(): the context attached last, the root context if none
Current(stack) == IF stack = <<>> THEN RootContext ELSE stack[Len(stack)]

\* Context::attach: the context becomes current until the guard is dropped
Attach(stack, cx) == Append(stack, cx)

\* drop(ContextGuard): the context that was current before is current again
Detach(stack) == SubSeq(stack, 1, Len(stack) - 1)

\* tracer.mark_span_as_active(&span): the span is the worker's active span
MarkSpanAsActive(stack, cx) == Append(stack, cx)

\* tracer.mark_span_as_inactive(span_id)
MarkSpanAsInactive(stack, span_id) ==
    SelectSeq(stack, LAMBDA c : c.span # span_id)

\* a variant of the span a completion writes to: the span that is active on
\* the worker when the handler completes, the span of the request when none is
ActiveSpan(span, stack) ==
    IF stack = <<>> THEN span ELSE Current(stack).span

\* cx.span() of the context the closure captured (the span moved into the
\* closure, middleware.rs): the span the request started, whatever is current
\* on the worker when the closure runs
CxSpan(span, stack) == span

\* the tasks code can run in: 0 is code outside of any inbound request, i is
\* the inner service of inbound request i, polled
Tasks == {0} \cup {i \in 1..Len(srv) : srv[i].pc = "called"}

\* Context::current() as code of the task sees it: the future of the inner
\* service of trace.rs is polled with_context(cx), cx holding the server span
CurrentIn(task) ==
    IF task # 0 /\ middleware = "trace"
    THEN Current(Attach(active, spans[srv[task].span].cx))
    ELSE Current(active)

(***************************************************************************)
(* Inbound requests.                                                       *)
(***************************************************************************)
RemoteParent == RemoteContext(2748, 200, TRUE)

\* the headers of a request that carries cx in the given format
Encode(fmt, cx) == SetAll(EmptyHeaders, InjectFields(fmt, cx)).headers

PrimaryKey(fmt) ==
    CASE fmt = "b3" -> "x-b3-traceid" [] fmt = "b3single" -> "x-b3"
      [] OTHER -> "traceparent"

WireFormat(fmt) == IF fmt = "custom" THEN "tracecontext" ELSE fmt

\* the value a format writes under its primary key
PrimaryValue(fmt, cx) ==
    CASE fmt = "b3" -> Hex(cx.trace, TraceIdHexLen)
      [] fmt = "b3single" -> B3Single(cx)
      [] OTHER -> TraceParent(cx)

\* no propagation headers, a well-formed parent, and the ways the primary
\* header can be wrong: a character short, a character that is no hex digit, a trace
\* id of zero, bytes that are not text
InboundHeaders(fmt) ==
    LET f == WireFormat(fmt)
        good == Encode(f, RemoteParent)
        k == PrimaryKey(f)
        v == good[k]
    IN  {EmptyHeaders, good,
         HeaderInsert(good, k, Tail(v)),
         HeaderInsert(good, k, [v EXCEPT ![4] = VISIBLE]),
         HeaderInsert(good, k, PrimaryValue(f, RemoteContext(0, 200, TRUE))),
         HeaderInsert(good, k, Append(v, OBSTEXT))}

\* 103240ba-3d8d-4695-a176-e19cbc627483
Uuid ==
    <<"1", "0", "3", "2", "4", "0", "b", "a", "-", "3", "d", "8", "d", "-",
      "4", "6", "9", "5", "-", "a", "1", "7", "6", "-",
      "e", "1", "9", "c", "b", "c", "6", "2", "7", "4", "8", "3">>

UsersPath == <<"/", "u", "s", "e", "r", "s", "/">>

\* the request line and what the router knows of it: the pattern of the
\* resource the path matches, if any
RequestLine(method, path, query, pattern) ==
    [method |-> method, path |-> path, query |-> query, pattern |-> pattern]

\* GET /users/103240ba-3d8d-4695-a176-e19cbc627483?a=1 under /users/{id}
UsersRequest ==
    RequestLine("GET", UsersPath \o Uuid, Some(<<"a", "=", "1">>),
                Some(UsersPath \o <<"{", "i", "d", "}">>))

\* POST /users/103240ba-3d8d-4695-a176-e19cbc627483, which no resource matches
UnmatchedRequest == RequestLine("POST", UsersPath \o Uuid, None, None)

\* GET /users/42 under /users/42, a resource without parameters
NumericRequest ==
    RequestLine("GET", UsersPath \o <<"4", "2">>, None,
                Some(UsersPath \o <<"4", "2">>))

RequestLines == {UsersRequest, UnmatchedRequest, NumericRequest}

\* req.match_pattern()
MatchPattern(line) == line.pattern

\* req.uri().path_and_query().as_str()
PathAndQuery(line) ==
    IF line.query.some THEN line.path \o <<"?">> \o line.query.v ELSE line.path

(***************************************************************************)
(* RequestTracingMiddleware::call, middleware/trace.rs, and the completion *)
(* of the inner service's future.                                          *)
(***************************************************************************)
\* the route label: the matched pattern, formatted when a formatter is set
HttpRoute(formatter, line) ==
    LET pattern == MatchPattern(line)
        http_route == IF pattern.some THEN pattern.v
                      ELSE <<"u", "n", "m", "a", "t", "c", "h", "e", "d">>
    IN  IF formatter # "none" THEN Format(formatter, http_route) ELSE http_route

\* the attributes the span is built with that come from the request line
\* and the headers
ServerAttributes(line, http_route, headers) ==
    LET ua == RequestHeaderCarrierGet(headers, "user-agent")
    IN  <<<<"http.method", line.method>>, <<"http.route", http_route>>,
          <<"http.target", PathAndQuery(line)>>>>
            \o (IF ua.some THEN <<<<"http.user_agent", ua.v>>>> ELSE <<>>)

\* the headers of the outbound requests that were sent
Wire == {cli[j].headers : j \in {k \in 1..Len(cli) : cli[k].sent}}

Activities == Len(srv) + Len(cli)

\* call: the extracted context is attached while call runs; the span is built
\* as a child of the current context; the inner service is called and its
\* future wrapped; the guard is dropped when call returns
ServerCall(line, headers) ==
    /\ middleware = "trace"
    /\ LET attached == Attach(active, Extract(propagator, headers, Current(active)))
           http_route == HttpRoute(route_formatter, line)
           id == Len(spans) + 1
           span == StartSpan(id, http_route, "server", <<"srv", Len(srv) + 1>>,
                             Current(attached),
                             ServerAttributes(line, http_route, headers))
       IN  /\ spans' = Append(spans, span)
           /\ srv' = Append(srv, [pc |-> "called", line |-> line,
                                  headers |-> headers,
                                  span |-> id, delegated |-> TRUE,
                                  res |-> Pending, ret |-> Pending])
           /\ active' = Detach(attached)
    /\ UNCHANGED <<config, scrape, cli, rt, rf>>

\* variants of the closure: the Err arm does not end the span; the Err is
\* turned into a response
ServerRecordNoEndOnErr(span, res) ==
    IF res.ok
    THEN EndSpan(SetStatus(SetAttribute(span, "http.status_code", res.status),
                           [code |-> ServerStatus(res.status),
                            description |-> NoDescription]))
    ELSE SetStatus(span, [code |-> "Internal", description |-> Debug(res.err)])

ServerReturnRendered(res) == IF res.ok THEN Ok(res.status) ELSE Ok(500)

\* the closure given to map(): the Ok arm and the Err arm
ServerRecord(span, res) ==
    IF res.ok
    THEN LET s1 == SetAttribute(span, "http.status_code", res.status)
             reason == CanonicalReason(res.status)
             s2 == IF reason.some
                   THEN SetAttribute(s1, "http.status_text", reason.v) ELSE s1
             s3 == SetStatus(s2, [code |-> ServerStatus(res.status),
                                  description |-> NoDescription])
         IN  EndSpan(s3)
    ELSE EndSpan(SetStatus(span, [code |-> "Internal",
                                  description |-> Debug(res.err)]))

\* what the closure returns
ServerReturn(res) == IF res.ok THEN Ok(res.status) ELSE Err(res.err)

\* the poll in which the inner service resolves: the context of the span is
\* attached for the poll and detached after it, then the closure runs
ServiceResolve(i, res) ==
    /\ middleware = "trace"
    /\ i \in 1..Len(srv)
    /\ srv[i].pc = "called"
    /\ spans' = [spans EXCEPT ![CxSpan(srv[i].span, active)] = ServerRecord(@, res)]
    /\ srv' = [srv EXCEPT ![i].pc = "done", ![i].res = res,
                          ![i].ret = ServerReturn(res)]
    /\ active' = Detach(Attach(active, spans[srv[i].span].cx))
    /\ UNCHANGED <<config, scrape, cli, rt, rf>>

\* a variant of the drop that ends the span with an error status
ServerDropEnds(span) ==
    EndSpan(SetStatus(span, [code |-> "Internal",
                             description |-> Description("cancelled", 0, "")]))

\* the future call returned is dropped before the inner service resolves:
\* the closure given to map() / then() is dropped with it and never runs, so
\* the tracer makes no call on the span
ServerDrop(span) == span

\* the request is cancelled while its inner service is pending; the future
\* is not polled again
ServiceDrop(i) ==
    /\ i \in 1..Len(srv)
    /\ srv[i].pc = "called"
    /\ spans' = [spans EXCEPT ![srv[i].span] = ServerDrop(@)]
    /\ srv' = [srv EXCEPT ![i].pc = "dropped"]
    /\ UNCHANGED <<config, scrape, cli, rt, rf, active>>

(***************************************************************************)
(* RequestTracingMiddleware::call of middleware.rs, the B3 middleware.     *)
(***************************************************************************)
\* self.route_formatter.format(path.as_str())
LegacyFormat(formatter, uri) ==
    IF formatter = "uuid" THEN LegacyUuidWildcardFormatterFormat(uri)
    ELSE Format(formatter, uri)

ServerCallLegacy(line, headers) ==
    /\ middleware = "legacy"
    /\ LET parent == ExtractSpanContext(propagator, headers)
           id == Len(spans) + 1
           s0 == StartSpan(id, <<"router">>, "server", <<"srv", Len(srv) + 1>>,
                           parent, <<>>)
           s1 == SetAttribute(s0, "span.kind", "server")
           s2 == SetAttribute(s1, "component", "http")
           s3 == SetAttribute(s2, "http.method", line.method)
           s4 == SetAttribute(s3, "http.target", PathAndQuery(line))
           s5 == SetAttribute(s4, "http.route",
                              LegacyFormat(route_formatter, PathAndQuery(line)))
       IN  /\ spans' = Append(spans, s5)
           /\ srv' = Append(srv, [pc |-> "called", line |-> line,
                                  headers |-> headers,
                                  span |-> id, delegated |-> TRUE,
                                  res |-> Pending, ret |-> Pending])
           /\ active' = MarkSpanAsActive(active, s5.cx)
    /\ UNCHANGED <<config, scrape, cli, rt, rf>>

\* the closure given to then(): the Ok arm and the Err arm
ServerRecordLegacy(span, res) ==
    IF res.ok
    THEN LET s1 == SetAttribute(span, "http.status_code", res.status)
             reason == CanonicalReason(res.status)
             s2 == IF reason.some
                   THEN SetAttribute(s1, "http.status_text", reason.v) ELSE s1
         IN  EndSpan(s2)
    ELSE EndSpan(AddEvent(SetAttribute(span, "error", TRUE), Debug(res.err)))

ServiceResolveLegacy(i, res) ==
    /\ middleware = "legacy"
    /\ i \in 1..Len(srv)
    /\ srv[i].pc = "called"
    /\ spans' = [spans EXCEPT ![CxSpan(srv[i].span, active)] =
                    ServerRecordLegacy(@, res)]
    /\ srv' = [srv EXCEPT ![i].pc = "done", ![i].res = res,
                          ![i].ret = ServerReturn(res)]
    /\ active' = MarkSpanAsInactive(active, spans[srv[i].span].cx.span)
    /\ UNCHANGED <<config, scrape, cli, rt, rf>>

(***************************************************************************)
(* The client request tracer, client.rs.                                   *)
(***************************************************************************)
\* a context the request already carries headers of
StaleContext == RemoteContext(3003, 201, FALSE)

\* the headers of the request before it is wrapped: none, or a user agent
\* and the propagation headers of an earlier hop
OutboundHeaders(fmt) ==
    {EmptyHeaders,
     HeaderInsert(Encode(WireFormat(fmt), StaleContext), "user-agent",
                  <<VISIBLE, VISIBLE>>)}

NoneStr == [some |-> FALSE, v |-> ""]
NoPort == [some |-> FALSE, v |-> 0]

\* http::Uri
Uri(scheme, host, port, path, query) ==
    [scheme |-> scheme, host |-> host, port |-> port, path |-> path,
     query |-> query]

\* the request before it is wrapped: the method and the URI
ClientRequest(method, uri) == [method |-> method, uri |-> uri]

\* GET http://localhost/
PlainRequest ==
    ClientRequest("GET", Uri("http", Some("localhost"), NoPort, "/", NoneStr))

\* what awc requests can look like: a port that is the default of the
\* scheme, another port with a query, a URI without scheme and host
ClientRequests ==
    {PlainRequest,
     ClientRequest("GET", Uri("http", Some("localhost"), Some(80), "/", NoneStr)),
     ClientRequest("POST", Uri("https", Some("example.com"), Some(8080),
                               "/users", Some("a=1"))),
     ClientRequest("PUT", Uri("", NoneStr, NoPort, "/users", NoneStr))}

\* trace_request_with_context takes any context
GivenContexts == {RemoteParent}

\* fn default_span_namer(request): "{method} {host}", the host empty when the
\* URI has none
DefaultSpanNamer(request) ==
    <<request.method, " ",
      IF request.uri.host.some THEN request.uri.host.v ELSE "">>

\* the naming functions a caller supplies: that of the documentation,
\* |r| format!("HTTP {}", r.get_method()), and one that names the path
SuppliedNamers == {"http_method", "path"}

\* (self.span_namer)(&self.request)
ApplyNamer(span_namer, request) ==
    CASE span_namer = "http_method" -> <<"HTTP ", request.method>>
      [] span_namer = "path" -> <<request.uri.path>>
      [] OTHER -> DefaultSpanNamer(request)

\* a variant of the wrapper: the context is injected into the request when
\* it is wrapped
RequestInjectedAtWrap(cx, headers) ==
    SetAll(headers, CHOOSE fields \in Emitted(propagator, cx) : TRUE).headers

\* request: self; the wrappers take and return the request by value and none
\* of them (trace_request_with_context, with_attributes, with_span_namer)
\* touches it
WrapperRequest(cx, headers) == headers

\* ClientExt::trace_request_with_context: the context is kept in the wrapper
TraceRequestWithContext(cx, how, task, request, headers) ==
    /\ cli' = Append(cli, [pc |-> "wrapped", cx |-> cx, how |-> how,
                           task |-> task, attrs |-> <<>>, supplied |-> <<>>,
                           span_namer |-> "default", namers |-> <<>>,
                           request |-> request, request_headers |-> headers,
                           headers |-> WrapperRequest(cx, headers),
                           span |-> 0, fields |-> <<>>, sent |-> FALSE,
                           at_send |-> RootContext,
                           res |-> Pending, ret |-> Pending])
    /\ UNCHANGED <<config, scrape, spans, srv, rt, active, met, metrics, rf>>

\* ClientExt::trace_request: the context that is current when it is called
TraceRequest(task, request, headers) ==
    TraceRequestWithContext(CurrentIn(task), "current", task, request, headers)

\* a variant of with_attributes: the attributes replace the earlier ones
WithAttributesReplace(attrs, more) == more

\* with_attributes: self.attrs.extend(attrs)
WithAttributes(attrs, more) == attrs \o more

\* the batches of attributes a caller adds: one, two, one under the key of a
\* standard attribute
AttributeBatches ==
    {<<<<"dye-key", "dye-value">>>>,
     <<<<"tenant", "a">>, <<"dye-key", "other">>>>,
     <<<<"server.address", "shadow">>>>}

MaxAttributeCalls == 2

\* request.with_attributes(more) on a wrapped request
AddAttributes(j, more) ==
    /\ j \in 1..Len(cli)
    /\ cli[j].pc = "wrapped"
    /\ Len(cli[j].supplied) < MaxAttributeCalls
    /\ cli' = [cli EXCEPT ![j].attrs = WithAttributes(@, more),
                          ![j].supplied = Append(@, more)]
    /\ UNCHANGED <<config, scrape, spans, srv, rt, active, met, metrics, rf>>

MaxNamerCalls == 2

\* a variant of with_span_namer: the first naming function supplied is kept
WithSpanNamerFirst(current, span_namer) ==
    IF current = "default" THEN span_namer ELSE current

\* with_span_namer: self.span_namer = span_namer
WithSpanNamer(current, span_namer) == span_namer

\* request.with_span_namer(span_namer) on a wrapped request
SetSpanNamer(j, span_namer) ==
    /\ j \in 1..Len(cli)
    /\ cli[j].pc = "wrapped"
    /\ Len(cli[j].namers) < MaxNamerCalls
    /\ cli' = [cli EXCEPT ![j].span_namer = WithSpanNamer(@, span_namer),
                          ![j].namers = Append(@, span_namer)]
    /\ UNCHANGED <<config, scrape, spans, srv, rt, active, met, metrics, rf>>

\* u64::from_str / i64::from_str of a string of decimal digits
RECURSIVE DecimalValue(_)
DecimalValue(s) ==
    IF s = <<>> THEN 0
    ELSE DecimalValue(SubSeq(s, 1, Len(s) - 1)) * 10 + s[Len(s)]

NoNumber == [some |-> FALSE, v |-> 0]

\* str::parse::<u64>: one decimal digit or more and nothing else (the
\* strings here have no '+' and are short of the overflow)
ParseU64(s) ==
    IF s # <<>> /\ \A i \in 1..Len(s) : s[i] \in 0..9
    THEN Some(DecimalValue(s)) ELSE NoNumber

\* str::parse::<i64>: the same after an optional '-'
ParseI64(s) ==
    IF s # <<>> /\ s[1] = DASH
    THEN LET n == ParseU64(Tail(s))
         IN  IF n.some THEN Some(0 - n.v) ELSE NoNumber
    ELSE ParseU64(s)

\* headers().get(CONTENT_LENGTH).and_then(|len| len.to_str().ok()
\*     .and_then(|str_len| str_len.parse::<i64>().ok()))
ContentLength(headers) ==
    LET h == HeaderGet(headers, "content-length")
        text == IF h.some THEN ToStr(h.v) ELSE None
    IN  IF text.some THEN ParseI64(text.v) ELSE NoNumber

\* util::http_url: the parts format! joins
HttpUrl(uri) ==
    [scheme |-> uri.scheme,
     host |-> IF uri.host.some THEN uri.host.v ELSE "",
     port |-> IF uri.port.some /\ uri.port.v \notin {80, 443} THEN uri.port ELSE NoPort,
     path |-> uri.path,
     delimiter |-> IF uri.query.some THEN "?" ELSE "",
     query |-> IF uri.query.some THEN uri.query.v ELSE ""]

\* the standard attributes trace_request extends self.attrs with
ClientAttributes(request, headers) ==
    LET uri == request.uri
        ua == HeaderGet(headers, "user-agent")
        text == IF ua.some THEN ToStr(ua.v) ELSE None
        len == ContentLength(headers)
    IN  <<<<"server.address", IF uri.host.some THEN uri.host.v ELSE "unknown">>,
          <<"http.request.method", request.method>>,
          <<"url.full", HttpUrl(uri)>>>>
            \o (IF uri.port.some /\ uri.port.v \notin {80, 443}
                THEN <<<<"server.port", uri.port.v>>>> ELSE <<>>)
            \o (IF text.some THEN <<<<"user_agent.original", text.v>>>> ELSE <<>>)
            \o (IF len.some THEN <<<<"messaging.message.body.size", len.v>>>>
                ELSE <<>>)

\* let cx = self.cx.with_span(span): the context that is injected
InjectedContextParent(parent, span) == parent

InjectedContext(parent, span) == span.cx

\* a variant of the parent the span is started with: the context that is
\* current when the request is sent
SpanParentAtSend(cx, current) == current

\* start_with_context(&tracer, &self.cx): the context kept in the wrapper
SpanParent(cx, current) == cx

\* a variant of the hand-over: the request as it was before the injection
TransmittedBeforeInject(before, injected) == before

\* f(self.request): the request handed to the transport is the one the
\* context was injected into
Transmitted(before, injected) == injected

\* InstrumentedClientRequest::trace_request up to the call of f, run by the
\* task that sends: the span is started, the context injected and the
\* request handed to the transport, unless the carrier panics
Send(j, task) ==
    /\ j \in 1..Len(cli)
    /\ cli[j].pc = "wrapped"
    /\ LET id == Len(spans) + 1
           attrs == cli[j].attrs \o ClientAttributes(cli[j].request, cli[j].headers)
           parent == SpanParent(cli[j].cx, CurrentIn(task))
           name == ApplyNamer(cli[j].span_namer, cli[j].request)
           span == StartSpan(id, name, "client", <<"cli", j>>, parent, attrs)
       IN  /\ spans' = Append(spans, span)
           /\ \E fields \in Emitted(propagator, InjectedContext(parent, span)) :
                 LET r == SetAll(cli[j].headers, fields)
                 IN  cli' = [cli EXCEPT
                                ![j].pc = IF r.ok THEN "sending" ELSE "panicked",
                                ![j].attrs = <<>>,
                                ![j].span = id,
                                ![j].headers =
                                    IF r.ok THEN Transmitted(cli[j].headers, r.headers)
                                    ELSE r.headers,
                                ![j].fields = fields,
                                ![j].sent = r.ok,
                                ![j].at_send = CurrentIn(task)]
    /\ UNCHANGED <<config, scrape, srv, rt, active, met, metrics, rf>>

\* a variant of convert_status with the first range one too wide
ConvertStatusOffByOne(code) ==
    CASE code \in 100..400 -> Unset
      [] code \in 401..599 ->
            [code |-> "Error",
             description |-> Description("Unexpected status code", 0, "")]
      [] OTHER ->
            [code |-> "Error",
             description |-> Description("Invalid HTTP status code {}", code, "")]

\* convert_status
ConvertStatus(code) ==
    CASE code \in 100..399 -> Unset
      [] code \in 400..599 ->
            [code |-> "Error",
             description |-> Description("Unexpected status code", 0, "")]
      [] OTHER ->
            [code |-> "Error",
             description |-> Description("Invalid HTTP status code {}", code, "")]

\* a variant of record_response that ends the span before it writes to it
RecordResponseEndFirst(span, status) ==
    SetAttribute(SetStatus(EndSpan(span), ConvertStatus(status)),
                 "http.response.status_code", status)

\* record_response
RecordResponse(span, status) ==
    EndSpan(SetAttribute(SetStatus(span, ConvertStatus(status)),
                         "http.response.status_code", status))

\* a variant of record_err that only ends the span
RecordErrNoStatus(span, err) == EndSpan(span)

\* record_err
RecordErr(span, err) ==
    EndSpan(SetStatus(span, [code |-> "Error", description |-> Debug(err)]))

\* inspect_ok / inspect_err hand the result on as it is
ClientReturn(res) == res

\* the send resolves
SendResolve(j, res) ==
    /\ j \in 1..Len(cli)
    /\ cli[j].pc = "sending"
    /\ spans' = [spans EXCEPT ![CxSpan(cli[j].span, active)] =
                    IF res.ok THEN RecordResponse(@, res.status)
                    ELSE RecordErr(@, res.err)]
    /\ cli' = [cli EXCEPT ![j].pc = "done", ![j].res = res,
                          ![j].ret = ClientReturn(res)]
    /\ UNCHANGED <<config, scrape, srv, rt, active, met, metrics, rf>>

(***************************************************************************)
(* The metrics middleware, middleware/metrics.rs.  An instrument is the    *)
(* sequence of the measurements made on it, each with its attributes.      *)
(***************************************************************************)
\* struct Metrics, nothing measured yet
NoMetrics ==
    [http_server_duration |-> <<>>, http_server_active_requests |-> <<>>,
     http_server_request_size |-> <<>>, http_server_response_size |-> <<>>]

\* UpDownCounter::add and Histogram::record
Measure(instrument, value, attributes) ==
    Append(instrument, [value |-> value, attributes |-> attributes])

\* the value of an up-down counter for a set of attributes: the sum of what
\* was added under it
RECURSIVE CounterValue(_, _)
CounterValue(instrument, attributes) ==
    IF instrument = <<>> THEN 0
    ELSE CounterValue(Tail(instrument), attributes)
            + (IF instrument[1].attributes = attributes
               THEN instrument[1].value ELSE 0)

\* the route label: the matched pattern, formatted when a formatter is set
HttpTarget(formatter, line) ==
    LET pattern == MatchPattern(line)
        http_target == IF pattern.some THEN pattern.v
                       ELSE <<"d", "e", "f", "a", "u", "l", "t">>
    IN  IF formatter # "none" THEN Format(formatter, http_target) ELSE http_target

\* util::metrics_attributes_from_request: what comes from the request line
MetricsAttributesFromRequest(line, http_route) ==
    <<<<"http.route", http_route>>, <<"http.request.method", line.method>>>>

\* res.response().body().size()
BodySizes == {[sized |-> TRUE, size |-> 5], [sized |-> FALSE, size |-> 0]}

\* req.headers().get(CONTENT_LENGTH).and_then(|len| len.to_str().ok()
\*     .and_then(|s| s.parse().ok())).unwrap_or(0), a u64
RequestContentLength(headers) ==
    LET h == HeaderGet(headers, "content-length")
        text == IF h.some THEN ToStr(h.v) ELSE None
        len == IF text.some THEN ParseU64(text.v) ELSE NoNumber
    IN  IF len.some THEN len.v ELSE 0

\* a variant that records the request size only when the header holds a
\* number
MetricsEnterParsedOnly(m, attributes, headers) ==
    LET content_length == RequestContentLength(headers)
    IN  [m EXCEPT
            !.http_server_active_requests = Measure(@, 1, attributes),
            !.http_server_request_size =
                IF content_length # 0 THEN Measure(@, content_length, attributes)
                ELSE @]

\* what call measures before it calls the inner service
MetricsEnter(m, attributes, headers) ==
    LET content_length == RequestContentLength(headers)
    IN  [m EXCEPT
            !.http_server_active_requests = Measure(@, 1, attributes),
            !.http_server_request_size = Measure(@, content_length, attributes)]

\* variants of the closure: the gauge taken down only for a response; the
\* histograms recorded for an error as well
MetricsRecordOkOnly(m, attributes, res, body) ==
    IF res.ok
    THEN LET done == Append(attributes, <<"http.response.status_code", res.status>>)
         IN  [m EXCEPT
                 !.http_server_active_requests = Measure(@, -1, attributes),
                 !.http_server_response_size =
                     Measure(@, IF body.sized THEN body.size ELSE 0, done),
                 !.http_server_duration = Measure(@, "elapsed", done)]
    ELSE m

MetricsRecordAlways(m, attributes, res, body) ==
    LET done == Append(attributes, <<"http.response.status_code", res.status>>)
    IN  [m EXCEPT
            !.http_server_active_requests = Measure(@, -1, attributes),
            !.http_server_response_size =
                Measure(@, IF body.sized THEN body.size ELSE 0, done),
            !.http_server_duration = Measure(@, "elapsed", done)]

\* a variant of the closure that appends the status code before it takes the
\* gauge down
MetricsRecordStatusFirst(m, attributes, res, body) ==
    IF res.ok
    THEN LET done == Append(attributes, <<"http.response.status_code", res.status>>)
         IN  [m EXCEPT
                 !.http_server_active_requests = Measure(@, -1, done),
                 !.http_server_response_size =
                     Measure(@, IF body.sized THEN body.size ELSE 0, done),
                 !.http_server_duration = Measure(@, "elapsed", done)]
    ELSE [m EXCEPT !.http_server_active_requests = Measure(@, -1, attributes)]

\* the closure given to map(): what it measures
MetricsRecord(m, attributes, res, body) ==
    LET m1 == [m EXCEPT
                  !.http_server_active_requests = Measure(@, -1, attributes)]
    IN  IF res.ok
        THEN LET done == Append(attributes,
                                <<"http.response.status_code", res.status>>)
                 response_size == IF body.sized THEN body.size ELSE 0
             IN  [m1 EXCEPT
                     !.http_server_response_size = Measure(@, response_size, done),
                     !.http_server_duration = Measure(@, "elapsed", done)]
        ELSE m1

\* what the closure returns
MetricsReturn(res) == IF res.ok THEN Ok(res.status) ELSE res

\* RequestMetricsMiddleware::call up to the call of the inner service
MetricsCall(line, headers) ==
    LET attributes ==
            MetricsAttributesFromRequest(line, HttpTarget(route_formatter, line))
    IN  /\ metrics' = MetricsEnter(metrics, attributes, headers)
        /\ met' = Append(met, [pc |-> "called", line |-> line,
                               headers |-> headers, attributes |-> attributes,
                               inner |-> Len(srv) + 1, body |-> [sized |-> FALSE, size |-> 0],
                               res |-> Pending, ret |-> Pending])

\* the inner service of request k resolves, and the closure runs on the
\* result
MetricsResolve(k, res, body) ==
    /\ k \in 1..Len(met)
    /\ met[k].pc = "called"
    /\ metrics' = MetricsRecord(metrics, met[k].attributes, res, body)
    /\ met' = [met EXCEPT ![k].pc = "done", ![k].res = res, ![k].body = body,
                          ![k].ret = MetricsReturn(res)]

\* the future of request k is dropped before the inner service resolves: the
\* closure never runs and nothing is measured
MetricsDrop(k) ==
    /\ k \in 1..Len(met)
    /\ met[k].pc = "called"
    /\ metrics' = metrics
    /\ met' = [met EXCEPT ![k].pc = "dropped"]

(***************************************************************************)
(* PrometheusMetricsHandler, middleware/metrics.rs.  The registry is the   *)
(* sequence of the metric families it gathers; a family is the text the    *)
(* encoder writes for it, or one the encoder refuses.                      *)
(***************************************************************************)
\* a metric family as the text encoder sees it
MetricFamily(name, text, valid) == [name |-> name, text |-> text, valid |-> valid]

\* two families the encoder writes and one it refuses (a family without
\* metrics)
MetricFamilies ==
    {MetricFamily("http_server_duration", <<VISIBLE, 1>>, TRUE),
     MetricFamily("http_server_active_requests", <<VISIBLE, 2>>, TRUE),
     MetricFamily("empty", <<>>, FALSE)}

\* TextEncoder::encode(&metric_families, &mut buf): the families are written
\* to buf in order; the first one refused ends it with an error
RECURSIVE TextEncoderEncode(_, _)
TextEncoderEncode(metric_families, buf) ==
    IF metric_families = <<>> THEN [ok |-> TRUE, buf |-> buf, err |-> ""]
    ELSE IF ~metric_families[1].valid
         THEN [ok |-> FALSE, buf |-> buf, err |-> metric_families[1].name]
         ELSE TextEncoderEncode(Tail(metric_families),
                                buf \o metric_families[1].text)

\* String::from_utf8(buf).unwrap_or_default()
FromUtf8OrDefault(buf) ==
    IF \A n \in 1..Len(buf) : buf[n] # OBSTEXT THEN buf ELSE <<>>

\* PrometheusMetricsHandler::metrics: the text, and what is handed to
\* global::handle_error
PrometheusMetrics(registry) ==
    LET r == TextEncoderEncode(registry, <<>>)
    IN  [body |-> FromUtf8OrDefault(r.buf),
         handled |-> IF r.ok THEN <<>> ELSE <<r.err>>]

\* a variant of the handler that fails the request when the encoder fails
PrometheusCallFailing(registry) ==
    LET m == PrometheusMetrics(registry)
    IN  IF m.handled = <<>>
        THEN [ret |-> Ok(200), body |-> m.body, handled |-> m.handled]
        ELSE [ret |-> Err(m.handled[1]), body |-> <<>>, handled |-> m.handled]

\* dev::Handler::call: future::ok(HttpResponse::with_body(StatusCode::OK,
\* self.metrics()))
PrometheusCall(registry) ==
    LET m == PrometheusMetrics(registry)
    IN  [ret |-> Ok(200), body |-> m.body, handled |-> m.handled]

NoScrape == [registry |-> <<>>, answered |-> <<>>, handled |-> <<>>]

(***************************************************************************)
(* The specification of the two tracers.                                   *)
(***************************************************************************)
Configurations ==
    {<<"trace", f>> : f \in Formats} \cup {<<"legacy", f>> : f \in {"b3", "b3single"}}

\* RequestTracing::new() has no formatter, RequestTracing::default() of
\* middleware.rs the UUID wildcard
DefaultFormatter(mw) == IF mw = "trace" THEN "none" ELSE "uuid"

RtOff == [stage |-> "off", cx |-> RootContext, headers |-> EmptyHeaders,
          out |-> RootContext]

RfOff == [stage |-> "off", formatter |-> "none", path |-> <<>>, once |-> <<>>,
          twice |-> <<>>]

Init ==
    /\ \E c \in Configurations : middleware = c[1] /\ propagator = c[2]
    /\ route_formatter = DefaultFormatter(middleware)
    /\ spans = <<>>
    /\ srv = <<>>
    /\ cli = <<>>
    /\ rt = RtOff
    /\ active = <<>>
    /\ met = <<>>
    /\ metrics = NoMetrics
    /\ scrape = NoScrape
    /\ rf = RfOff

\* an inbound request reaches the tracing middleware
Arrive(inbound) ==
    /\ \E headers \in inbound :
          ServerCall(UsersRequest, headers) \/ ServerCallLegacy(UsersRequest, headers)
    /\ UNCHANGED <<met, metrics>>

\* code of a task wraps an outbound request
Wrap(outbound) ==
    \E task \in Tasks, headers \in outbound :
        \/ TraceRequest(task, PlainRequest, headers)
        \/ \E cx \in GivenContexts :
              TraceRequestWithContext(cx, "given", task, PlainRequest, headers)

\* a task sends a wrapped request
Start == \E j \in 1..Len(cli), task \in Tasks : Send(j, task)

Resolve(outcomes) ==
    \/ \E i \in 1..Len(srv), res \in outcomes :
          /\ ServiceResolve(i, res) \/ ServiceResolveLegacy(i, res)
          /\ UNCHANGED <<met, metrics>>
    \/ \E j \in 1..Len(cli), res \in outcomes : SendResolve(j, res)

\* Requests interleaved on one worker, with inputs of every kind: a request
\* without propagation headers, one with a well-formed parent, one that an
\* instrumented client of this process sent; a success, a client error, a
\* server error and a failure.
FewOutcomes == {Ok(200), Ok(404), Ok(500), Err("Timeout")}

Next ==
    \/ Activities < MaxSpans
          /\ Arrive({EmptyHeaders, Encode(WireFormat(propagator), RemoteParent)}
                        \cup Wire)
    \/ Activities < MaxSpans /\ Wrap({EmptyHeaders})
    \/ Start
    \/ Resolve(FewOutcomes)

Spec == Init /\ [][Next]_vars

\* One request at a time, with every input: every inbound header collection,
\* a request that already carries headers, every status code and error.
NextWide ==
    \/ Activities = 0 /\ Arrive(InboundHeaders(propagator))
    \/ Activities = 0 /\ Wrap(OutboundHeaders(propagator))
    \/ Start
    \/ Resolve(Outcomes(AllStatusCodes))

SpecWide == Init /\ [][NextWide]_vars

(***************************************************************************)
(* A round trip through the carriers: a context is injected into the       *)
(* headers of an outbound request through ActixClientCarrier, and the      *)
(* receiving side extracts from those headers through RequestHeaderCarrier.*)
(***************************************************************************)
RoundTripContexts ==
    {[trace |-> t, span |-> s, sampled |-> b, remote |-> FALSE] :
        t \in {1, 2748, 2147483647}, s \in {1, 200, 2147483647}, b \in BOOLEAN}

InitRoundTrip ==
    /\ \E c \in Configurations : middleware = c[1] /\ propagator = c[2]
    /\ propagator \in StandardFormats
    /\ route_formatter = DefaultFormatter(middleware)
    /\ spans = <<>>
    /\ srv = <<>>
    /\ cli = <<>>
    /\ active = <<>>
    /\ met = <<>>
    /\ metrics = NoMetrics
    /\ scrape = NoScrape
    /\ rf = RfOff
    /\ \E cx \in RoundTripContexts, headers \in OutboundHeaders(propagator) :
          rt = [stage |-> "start", cx |-> cx, headers |-> headers,
                out |-> RootContext]

\* propagator.inject_context(cx, &mut ActixClientCarrier::new(request))
RoundTripInject ==
    /\ rt.stage = "start"
    /\ LET r == SetAll(rt.headers, InjectFields(propagator, rt.cx))
       IN  rt' = [rt EXCEPT !.stage = IF r.ok THEN "injected" ELSE "panicked",
                            !.headers = r.headers]
    /\ UNCHANGED <<config, scrape, spans, srv, cli, active, met, metrics, rf>>

\* propagator.extract(&RequestHeaderCarrier::new(headers))
RoundTripExtract ==
    /\ rt.stage = "injected"
    /\ rt' = [rt EXCEPT !.stage = "extracted",
                        !.out = Extract(propagator, rt.headers, RootContext)]
    /\ UNCHANGED <<config, scrape, spans, srv, cli, active, met, metrics, rf>>

NextRoundTrip == RoundTripInject \/ RoundTripExtract

SpecRoundTrip == InitRoundTrip /\ [][NextRoundTrip]_vars

(***************************************************************************)
(* The client request tracer with the requests, headers and attributes a   *)
(* caller can give it, one inbound and one outbound request at a time.     *)
(***************************************************************************)
\* the headers of the request before it is wrapped: none, or a user agent
\* and a content length
ClientHeaders ==
    {EmptyHeaders,
     HeaderInsert(HeaderInsert(EmptyHeaders, "user-agent", <<VISIBLE>>),
                  "content-length", <<4, 2>>)}

InitClient ==
    /\ Init
    /\ propagator = IF middleware = "trace" THEN "tracecontext" ELSE "b3"

WrapAny ==
    \E task \in Tasks, request \in ClientRequests, headers \in ClientHeaders :
        \/ TraceRequest(task, request, headers)
        \/ \E cx \in GivenContexts :
              TraceRequestWithContext(cx, "given", task, request, headers)

Extend == \E j \in 1..Len(cli), more \in AttributeBatches : AddAttributes(j, more)

Rename == \E j \in 1..Len(cli), namer \in SuppliedNamers : SetSpanNamer(j, namer)

NextClient ==
    \/ Len(srv) = 0 /\ Arrive({EmptyHeaders})
    \/ Len(cli) = 0 /\ WrapAny
    \/ Extend
    \/ Start
    \/ Resolve({Ok(200), Err("Timeout")})

SpecClient == InitClient /\ [][NextClient]_vars

\* the same with the naming functions a caller can give the wrapper
NextNamer ==
    \/ Len(srv) = 0 /\ Arrive({EmptyHeaders})
    \/ Len(cli) = 0 /\ WrapAny
    \/ Rename
    \/ Start
    \/ Resolve({Ok(200), Err("Timeout")})

SpecNamer == InitClient /\ [][NextNamer]_vars

\* an outbound request alone, through every wrapper method and both paths of
\* the send
Finish ==
    \E j \in 1..Len(cli), res \in {Ok(200), Ok(404), Err("Timeout")} :
        SendResolve(j, res)

NextWrap ==
    \/ Len(cli) = 0 /\ WrapAny
    \/ Extend
    \/ Rename
    \/ Start
    \/ Finish

SpecWrap == InitClient /\ [][NextWrap]_vars

(***************************************************************************)
(* The metrics middleware wrapped around the tracing middleware, as in the *)
(* example of lib.rs: requests interleaved on one worker.                  *)
(***************************************************************************)
MaxRequests == 2

\* the tracing middleware and the formatter both middlewares are built with
MetricsConfigurations ==
    {<<"trace", "none">>, <<"trace", "uuid">>, <<"trace", "numeric">>,
     <<"legacy", "uuid">>}

InitMetrics ==
    /\ \E c \in MetricsConfigurations : middleware = c[1] /\ route_formatter = c[2]
    /\ propagator = IF middleware = "trace" THEN "tracecontext" ELSE "b3"
    /\ spans = <<>>
    /\ srv = <<>>
    /\ cli = <<>>
    /\ rt = RtOff
    /\ active = <<>>
    /\ met = <<>>
    /\ metrics = NoMetrics
    /\ scrape = NoScrape
    /\ rf = RfOff

\* no content length, or one of 42
MetricsHeaders ==
    {EmptyHeaders, HeaderInsert(EmptyHeaders, "content-length", <<4, 2>>)}

\* an inbound request reaches the metrics middleware, whose inner service is
\* the tracing middleware
MetricsArriveFrom(lines, inbound) ==
    \E line \in lines, headers \in inbound :
        /\ MetricsCall(line, headers)
        /\ ServerCall(line, headers) \/ ServerCallLegacy(line, headers)

MetricsArrive == MetricsArriveFrom(RequestLines, MetricsHeaders)

\* what the Content-Length header of an inbound request can hold: nothing,
\* 42, 0, the empty string, "4a", "-1", bytes that are not text
ContentLengths ==
    {EmptyHeaders} \cup
        {HeaderInsert(EmptyHeaders, "content-length", v) :
            v \in {<<4, 2>>, <<0>>, <<>>, <<4, 10>>, <<DASH, 1>>, <<4, 2, OBSTEXT>>}}

\* one request at a time, with every Content-Length
MetricsArriveWide == MetricsArriveFrom(RequestLines, ContentLengths)

\* the handler resolves: the closure of the tracing middleware runs, then
\* that of the metrics middleware on what the first returns
MetricsComplete ==
    \E k \in 1..Len(met), res \in {Ok(200), Err("Timeout")} :
        \E body \in IF res.ok THEN BodySizes ELSE {[sized |-> FALSE, size |-> 0]} :
            /\ \/ ServiceResolve(met[k].inner, res)
               \/ ServiceResolveLegacy(met[k].inner, res)
            /\ MetricsResolve(k, ServerReturn(res), body)

NextMetrics ==
    \/ Len(met) < MaxRequests /\ MetricsArrive
    \/ MetricsComplete

SpecMetrics == InitMetrics /\ [][NextMetrics]_vars

NextMetricsWide ==
    \/ Len(met) = 0 /\ MetricsArriveWide
    \/ MetricsComplete

SpecMetricsWide == InitMetrics /\ [][NextMetricsWide]_vars

(***************************************************************************)
(* Requests through both middlewares that resolve or are cancelled: the    *)
(* server drops the future of a request whose client has gone away.        *)
(***************************************************************************)
\* the future the metrics middleware returned is dropped, and with it the
\* future of the tracing middleware it wraps
Cancel ==
    \E k \in 1..Len(met) : MetricsDrop(k) /\ ServiceDrop(met[k].inner)

NextCancel ==
    \/ Len(met) < MaxRequests /\ MetricsArriveFrom(RequestLines, {EmptyHeaders})
    \/ MetricsComplete
    \/ Cancel

SpecCancel == InitMetrics /\ [][NextCancel]_vars

(***************************************************************************)
(* A path put through a route formatter, and the result through it again.  *)
(***************************************************************************)
MaxPieces == 3

\* what paths are made of: text, a UUID, a UUID short of a character, the
\* replacement, digits, a dash, a hex digit, a query
Pieces ==
    {UsersPath, Uuid, SubSeq(Uuid, 1, Len(Uuid) - 1), <<"*">>, <<"4", "2">>,
     <<"-">>, <<"a">>, <<"?", "a", "=", "1">>}

RECURSIVE PathsOf(_)
PathsOf(n) ==
    IF n = 0 THEN {<<>>}
    ELSE LET shorter == PathsOf(n - 1)
         IN  shorter \cup {p \o q : p \in shorter, q \in Pieces}

\* the formatters of the two route_formatter modules
FormatterKinds == (RouteFormatters \ {"none"}) \cup {"legacy"}

ApplyFormatter(formatter, path) ==
    IF formatter = "legacy" THEN LegacyUuidWildcardFormatterFormat(path)
    ELSE Format(formatter, path)

InitFormat ==
    /\ middleware = "trace"
    /\ propagator = "tracecontext"
    /\ route_formatter = "none"
    /\ spans = <<>>
    /\ srv = <<>>
    /\ cli = <<>>
    /\ rt = RtOff
    /\ active = <<>>
    /\ met = <<>>
    /\ metrics = NoMetrics
    /\ scrape = NoScrape
    /\ \E f \in FormatterKinds, p \in PathsOf(MaxPieces) :
          rf = [stage |-> "start", formatter |-> f, path |-> p, once |-> <<>>,
                twice |-> <<>>]

\* formatter.format(path)
FormatOnce ==
    /\ rf.stage = "start"
    /\ rf' = [rf EXCEPT !.stage = "once", !.once = ApplyFormatter(rf.formatter, rf.path)]
    /\ UNCHANGED <<config, scrape, spans, srv, cli, rt, active, met, metrics>>

\* formatter.format(route) of a route that is a formatter's result
FormatAgain ==
    /\ rf.stage = "once"
    /\ rf' = [rf EXCEPT !.stage = "twice", !.twice = ApplyFormatter(rf.formatter, rf.once)]
    /\ UNCHANGED <<config, scrape, spans, srv, cli, rt, active, met, metrics>>

NextFormat == FormatOnce \/ FormatAgain

SpecFormat == InitFormat /\ [][NextFormat]_vars

(***************************************************************************)
(* The Prometheus handler: families are registered and the registry is     *)
(* scraped.                                                                *)
(***************************************************************************)
MaxFamilies == 3
MaxScrapes == 2

InitScrape ==
    /\ middleware = "trace"
    /\ propagator = "tracecontext"
    /\ route_formatter = "none"
    /\ spans = <<>>
    /\ srv = <<>>
    /\ cli = <<>>
    /\ rt = RtOff
    /\ active = <<>>
    /\ met = <<>>
    /\ metrics = NoMetrics
    /\ rf = RfOff
    /\ scrape = NoScrape

\* a collector registers a metric family
Register ==
    /\ Len(scrape.registry) < MaxFamilies
    /\ \E family \in MetricFamilies :
          scrape' = [scrape EXCEPT !.registry = Append(@, family)]
    /\ UNCHANGED <<config, spans, srv, cli, rt, active, met, metrics, rf>>

\* GET /metrics: the handler is called and answers
Scrape ==
    /\ Len(scrape.answered) < MaxScrapes
    /\ LET r == PrometheusCall(scrape.registry)
       IN  scrape' = [scrape EXCEPT
                         !.answered = Append(@, [registry |-> scrape.registry,
                                                 ret |-> r.ret, body |-> r.body,
                                                 handled |-> r.handled]),
                         !.handled = @ \o r.handled]
    /\ UNCHANGED <<config, spans, srv, cli, rt, active, met, metrics, rf>>

NextScrape == Register \/ Scrape

SpecScrape == InitScrape /\ [][NextScrape]_vars

(***************************************************************************)
(* Properties.                                                             *)
(***************************************************************************)
ServerSpan(i) == spans[srv[i].span]
ClientSpan(j) == spans[cli[j].span]

HasAttribute(span, key, value) ==
    \E k \in 1..Len(span.attrs) :
        span.attrs[k][1] = key /\ span.attrs[k][2] = value

SpansOf(owner) == {id \in 1..Len(spans) : spans[id].owner = owner}

\* C1: every inbound request has exactly one span, a server span, started by
\* call; the span has been ended exactly once when the inner service has
\* resolved, whatever it resolved to, and not at all before.
C1_SpanPairing ==
    \A i \in 1..Len(srv) :
        /\ SpansOf(<<"srv", i>>) = {srv[i].span}
        /\ ServerSpan(i).kind = "server"
        /\ Count(ServerSpan(i).log, "end")
              = IF srv[i].pc = "done" THEN 1 ELSE 0
        /\ ServerSpan(i).ended = (srv[i].pc = "done")

\* two interleaved requests, one failed and one answered 500, both ended
C1_Witness ==
    \E i, k \in 1..Len(srv) :
        /\ srv[i].pc = "done" /\ srv[i].res = Err("Timeout")
        /\ srv[k].pc = "done" /\ srv[k].res = Ok(500)
        /\ ServerSpan(i).ended /\ ServerSpan(k).ended

\* C2: the future returned by call resolves to the result of the inner
\* service: the same response on Ok, whatever its status, and the same error
\* on Err.
C2_Transparent ==
    \A i \in 1..Len(srv) :
        /\ srv[i].pc = "done" => srv[i].ret = srv[i].res
        /\ srv[i].pc = "called" => srv[i].ret = Pending

\* a request that failed and one that was answered 404, both handed on
C2_Witness ==
    \E i, k \in 1..Len(srv) :
        /\ srv[i].pc = "done" /\ srv[i].ret = Err("Timeout")
        /\ srv[k].pc = "done" /\ srv[k].ret = Ok(404)

\* C3: when the inner handler returns a response, the status the server
\* tracer sets is an error status only for a response status in 500..=599,
\* and is no error status for a response status in 400..=499.
C3_ServerErrorOnly5xx ==
    \A i \in 1..Len(srv) :
        (middleware = "trace" /\ srv[i].pc = "done" /\ srv[i].res.ok) =>
            /\ IsErrorStatus(ServerSpan(i).status)
                  => srv[i].res.status \in 500..599
            /\ srv[i].res.status \in 400..499
                  => ~IsErrorStatus(ServerSpan(i).status)

\* C4: when the send succeeds the client tracer sets the status by a total
\* rule: unset for 100..=399, error for 400..=599, and for any other code an
\* error whose description names the code; the status code attribute is
\* recorded and the span ended in all three cases.
C4_ClientStatusRule ==
    \A j \in 1..Len(cli) :
        (cli[j].pc = "done" /\ cli[j].res.ok) =>
            LET code == cli[j].res.status
                status == ClientSpan(j).status
            IN  /\ code \in 100..399 => status = Unset
                /\ code \in 400..599 =>
                      /\ status.code = "Error"
                      /\ status.description.code = 0
                /\ code \notin 100..599 =>
                      /\ status.code = "Error"
                      /\ status.description.text = "Invalid HTTP status code {}"
                      /\ status.description.code = code
                /\ HasAttribute(ClientSpan(j), "http.response.status_code", code)
                /\ ClientSpan(j).ended
                /\ Count(ClientSpan(j).log, "end") = 1

\* a response in each of the three ranges is possible; this one is outside
\* 100..=599
C4_Witness ==
    \E j \in 1..Len(cli) :
        /\ cli[j].pc = "done" /\ cli[j].res = Ok(600)
        /\ ClientSpan(j).status.description.code = 600

\* C5: when the send fails, the client span's status is error with the
\* description made from the error, the span is ended, and the caller gets
\* the same error.
C5_ClientSendError ==
    \A j \in 1..Len(cli) :
        (cli[j].pc = "done" /\ ~cli[j].res.ok) =>
            /\ ClientSpan(j).status =
                  [code |-> "Error", description |-> Debug(cli[j].res.err)]
            /\ ClientSpan(j).ended
            /\ Count(ClientSpan(j).log, "end") = 1
            /\ ~HasAttribute(ClientSpan(j), "http.response.status_code", 0)
            /\ cli[j].ret = Err(cli[j].res.err)

\* a send that failed with a transport error
C5_Witness ==
    \E j \in 1..Len(cli) :
        /\ cli[j].pc = "done" /\ cli[j].res = Err("Timeout")
        /\ cli[j].ret = Err("Timeout")
        /\ ClientSpan(j).ended

\* the inbound request i carries the headers the client tracer sent for j
Carries(i, j) == cli[j].sent /\ srv[i].headers = cli[j].headers

StandardPropagation == propagator \in StandardFormats

\* C6 as stated: with the client tracer sending under a current context of
\* trace T and span s1, a server tracer that extracts the injected headers
\* starts a span whose parent trace id is T and whose parent span id is s1,
\* and whose own span id differs from s1.
C6_ParentIsSendersContext ==
    \A i \in 1..Len(srv), j \in 1..Len(cli) :
        (StandardPropagation /\ Carries(i, j) /\ IsValid(cli[j].cx)) =>
            /\ ServerSpan(i).parent.trace = cli[j].cx.trace
            /\ ServerSpan(i).parent.span = cli[j].cx.span
            /\ ServerSpan(i).cx.span # cli[j].cx.span

\* C6, amended: the injected headers encode trace T and the id of the client
\* span, which is the child of s1; a server tracer that extracts them starts
\* a span whose parent trace id is T and whose parent span id is the client
\* span's id, and whose own span id differs from that id and from s1.
C6_ParentIsClientSpan ==
    \A i \in 1..Len(srv), j \in 1..Len(cli) :
        (StandardPropagation /\ Carries(i, j) /\ IsValid(cli[j].cx)) =>
            /\ ClientSpan(j).parent = cli[j].cx
            /\ ClientSpan(j).cx.trace = cli[j].cx.trace
            /\ ClientSpan(j).cx.span # cli[j].cx.span
            /\ ServerSpan(i).parent.trace = cli[j].cx.trace
            /\ ServerSpan(i).parent.span = ClientSpan(j).cx.span
            /\ ServerSpan(i).parent.remote
            /\ ServerSpan(i).cx.trace = cli[j].cx.trace
            /\ ServerSpan(i).cx.span \notin {ClientSpan(j).cx.span, cli[j].cx.span}

\* a request sent under a valid context and received by a server tracer
C6_Witness ==
    \E i \in 1..Len(srv), j \in 1..Len(cli) :
        /\ StandardPropagation /\ Carries(i, j) /\ IsValid(cli[j].cx)
        /\ ServerSpan(i).parent.span = ClientSpan(j).cx.span

\* C7: once the context is injected, the propagation headers of the outbound
\* request are those of the client span's context, which has the parent's
\* trace id and the client span's own id, whatever the request carried under
\* those keys before; its other headers are as they were.
C7_InjectedHeaders ==
    \A j \in 1..Len(cli) :
        (StandardPropagation /\ cli[j].pc \in {"sending", "done"}) =>
            LET cx == ClientSpan(j).cx
                expected == Encode(propagator, cx)
            IN  /\ cx.span = cli[j].span
                /\ IsValid(cli[j].cx) => cx.trace = cli[j].cx.trace
                /\ PropagationKeys(propagator) = DOMAIN expected
                /\ \A k \in DOMAIN expected :
                      k \in DOMAIN cli[j].headers /\ cli[j].headers[k] = expected[k]
                /\ DOMAIN cli[j].headers \subseteq DOMAIN expected \cup {"user-agent"}
                /\ "user-agent" \in DOMAIN cli[j].headers =>
                      cli[j].headers["user-agent"] = <<VISIBLE, VISIBLE>>
                /\ Propagated(ExtractSpanContext(propagator, cli[j].headers))
                      = Propagated(cx)

\* a request that carried the headers of an earlier hop has been injected
C7_Witness ==
    \E j \in 1..Len(cli) :
        /\ StandardPropagation /\ cli[j].pc = "sending"
        /\ "user-agent" \in DOMAIN cli[j].headers
        /\ IsValid(cli[j].cx)
        /\ ExtractSpanContext(propagator, cli[j].headers).span = cli[j].span

\* the headers carry, under the keys of the format, what the format writes
\* for some valid context
WellFormed(fmt, headers) ==
    /\ fmt \in StandardFormats
    /\ \E cx \in {RemoteParent, StaleContext} \cup {spans[k].cx : k \in 1..Len(spans)} :
          LET e == Encode(fmt, cx)
          IN  \A k \in DOMAIN e : k \in DOMAIN headers /\ headers[k] = e[k]

\* C8: whatever the inbound headers are, the request gets a server span and
\* is handed to the inner service; when the headers hold no well-formed
\* propagation headers (none, malformed ones, ones that are not text) the
\* extracted context is the root context and the span a root span.
C8_GracefulDegradation ==
    \A i \in 1..Len(srv) :
        /\ srv[i].delegated
        /\ srv[i].span \in 1..Len(spans)
        /\ ServerSpan(i).kind = "server"
        /\ ~WellFormed(propagator, srv[i].headers) =>
              /\ ExtractSpanContext(propagator, srv[i].headers) = RootContext
              /\ ServerSpan(i).parent = RootContext
              /\ ServerSpan(i).cx.trace # RemoteParent.trace

\* a request whose propagation header is not text, traced as a root
C8_Witness ==
    \E i \in 1..Len(srv) :
        /\ \E k \in DOMAIN srv[i].headers :
              \E n \in 1..Len(srv[i].headers[k]) : srv[i].headers[k][n] = OBSTEXT
        /\ srv[i].delegated
        /\ ServerSpan(i).parent = RootContext

\* C9: a valid context injected into a request's headers through the
\* injector carrier and extracted from them through the extractor carrier
\* comes back with the same trace id, span id and sampling flag, in every
\* standard format; the injection does not panic.
C9_RoundTrip ==
    /\ rt.stage # "panicked"
    /\ rt.stage = "extracted" =>
          /\ Propagated(rt.out) = Propagated(rt.cx)
          /\ rt.out.remote

\* an unsampled context with wide ids has made the trip in a request that
\* carried the headers of an earlier hop
C9_Witness ==
    /\ rt.stage = "extracted"
    /\ rt.cx.trace = 2147483647 /\ rt.cx.span = 2147483647 /\ ~rt.cx.sampled
    /\ "user-agent" \in DOMAIN rt.headers
    /\ rt.out.trace = 2147483647

\* C10 as stated: whatever the propagator hands to the carrier, a key or
\* value that is no valid header name or value included, the outbound
\* request is sent and the inbound request reaches the inner service.
C10_NeverAborts ==
    /\ \A j \in 1..Len(cli) : cli[j].span # 0 => cli[j].sent
    /\ \A i \in 1..Len(srv) : srv[i].delegated

ValidField(field) ==
    /\ field[1] \notin InvalidHeaderNames
    /\ \A n \in 1..Len(field[2]) : field[2][n] # CONTROL

\* C10, amended: the inbound request always reaches the inner service, and
\* the outbound request is sent when every key and value the propagator
\* hands to ActixClientCarrier::set is a valid header name and value, as
\* those of the standard formats are; on one that is not, set panics and
\* the request is not sent.
C10_AbortsOnlyOnInvalidHeader ==
    /\ \A i \in 1..Len(srv) : srv[i].delegated
    /\ \A j \in 1..Len(cli) :
          cli[j].span # 0 =>
              /\ cli[j].sent = (\A n \in 1..Len(cli[j].fields) :
                                    ValidField(cli[j].fields[n]))
              /\ cli[j].sent = (cli[j].pc # "panicked")
              /\ StandardPropagation => cli[j].sent

\* a propagator handed over a key that is no header name, and the request
\* was not sent
C10_Witness ==
    \E j \in 1..Len(cli) :
        /\ cli[j].pc = "panicked" /\ ~cli[j].sent
        /\ cli[j].fields[1][1] = "bad key"

(***************************************************************************)
(* The metrics middleware.                                                 *)
(***************************************************************************)
\* how often a value was measured on an instrument under the attributes
Measured(instrument, value, attributes) ==
    Cardinality({n \in 1..Len(instrument) :
                    /\ instrument[n].attributes = attributes
                    /\ instrument[n].value = value})

\* the requests that entered the metrics middleware with the attributes
Entered(attributes) == {k \in 1..Len(met) : met[k].attributes = attributes}

Resolved(attributes) == {k \in Entered(attributes) : met[k].pc = "done"}

\* C11: every request that enters the metrics middleware adds 1 to the
\* active-requests counter exactly once, and -1 exactly once when its inner
\* service resolves, to Ok or to Err, under the same attributes; so the
\* counter counts the requests in flight and is 0 again under every set of
\* attributes when all requests have resolved.
C11_ActiveRequests ==
    LET gauge == metrics.http_server_active_requests
    IN  /\ \A n \in 1..Len(gauge) :
              /\ gauge[n].value \in {1, -1}
              /\ Entered(gauge[n].attributes) # {}
        /\ \A k \in 1..Len(met) :
              LET a == met[k].attributes
              IN  /\ Measured(gauge, 1, a) = Cardinality(Entered(a))
                  /\ Measured(gauge, -1, a) = Cardinality(Resolved(a))
                  /\ CounterValue(gauge, a)
                        = Cardinality(Entered(a) \ Resolved(a))
                  /\ Resolved(a) = Entered(a) => CounterValue(gauge, a) = 0

\* two interleaved requests under the same attributes have resolved, one of
\* them to an Err, and the counter is back at 0
C11_Witness ==
    \E i, k \in 1..Len(met) :
        /\ i # k /\ met[i].attributes = met[k].attributes
        /\ met[i].pc = "done" /\ ~met[i].res.ok
        /\ met[k].pc = "done" /\ met[k].res.ok
        /\ Len(metrics.http_server_active_requests) = 4
        /\ CounterValue(metrics.http_server_active_requests, met[i].attributes) = 0

\* the attributes the closure records a response under
Completed(k) ==
    Append(met[k].attributes, <<"http.response.status_code", met[k].res.status>>)

Answered == {k \in 1..Len(met) : met[k].pc = "done" /\ met[k].res.ok}

\* C12: the duration and the response size are recorded exactly once for a
\* request whose inner service resolves to Ok, under the attributes of the
\* request and the status code, and not at all for one that resolves to Err;
\* the counter is taken down for both, and the Err is returned as it is.
C12_ErrorsNotRecorded ==
    /\ Len(metrics.http_server_duration) = Cardinality(Answered)
    /\ Len(metrics.http_server_response_size) = Cardinality(Answered)
    /\ \A k \in Answered :
          LET same == {n \in Answered : Completed(n) = Completed(k)}
              size == {n \in same : met[n].body = met[k].body}
          IN  /\ Measured(metrics.http_server_duration, "elapsed", Completed(k))
                    = Cardinality(same)
              /\ Measured(metrics.http_server_response_size,
                          IF met[k].body.sized THEN met[k].body.size ELSE 0,
                          Completed(k)) = Cardinality(size)
    /\ \A k \in 1..Len(met) :
          (met[k].pc = "done" /\ ~met[k].res.ok) =>
              /\ met[k].ret = srv[met[k].inner].res
              /\ met[k].ret = Err(met[k].ret.err)
              /\ Measured(metrics.http_server_active_requests, -1, met[k].attributes)
                    = Cardinality(Resolved(met[k].attributes))

\* a request has resolved to an Err: nothing recorded, the counter taken down
C12_Witness ==
    \E k \in 1..Len(met) :
        /\ met[k].pc = "done" /\ met[k].ret = Err("Timeout")
        /\ metrics.http_server_duration = <<>>
        /\ metrics.http_server_response_size = <<>>
        /\ Measured(metrics.http_server_active_requests, -1, met[k].attributes) = 1

(***************************************************************************)
(* The ambient current context.                                            *)
(***************************************************************************)
\* C13: while the inner service of an inbound request is polled, the current
\* context is the context that holds the server span of that request, never
\* that of another request in flight; so a client request it wraps with
\* trace_request gets the context of its own server span.
C13_CurrentIsOwnSpan ==
    /\ \A i \in Tasks \ {0} :
          /\ CurrentIn(i) = ServerSpan(i).cx
          /\ \A k \in Tasks \ {0, i} : CurrentIn(i).span # srv[k].span
    /\ \A j \in 1..Len(cli) :
          (cli[j].how = "current" /\ cli[j].task # 0) =>
              cli[j].cx = ServerSpan(cli[j].task).cx

\* C14: when call has returned its future, and after every poll of it, the
\* last one included, the worker's current context is the one that was
\* current before, the root context: nothing stays attached, neither the
\* extracted parent nor the context of the server span.
C14_ContextRestored ==
    /\ active = <<>>
    /\ Current(active) = RootContext

(***************************************************************************)
(* Route formatters.                                                       *)
(***************************************************************************)
\* C15: formatting with the UUID wildcard formatter is idempotent: a route
\* that the formatter returned is returned unchanged; a path that ends in a
\* UUID becomes /users/* and stays /users/*.
C15_FormatIdempotent ==
    (rf.stage = "twice" /\ rf.formatter \in {"uuid", "legacy"}) =>
        /\ rf.twice = rf.once
        /\ rf.path = UsersPath \o Uuid =>
              /\ rf.once = UsersPath \o <<"*">>
              /\ rf.twice = UsersPath \o <<"*">>

\* a path in which a UUID follows a UUID short of a character, formatted
\* twice
C15_Witness ==
    /\ rf.stage = "twice" /\ rf.formatter = "uuid"
    /\ rf.path = SubSeq(Uuid, 1, Len(Uuid) - 1) \o Uuid
    /\ rf.once # rf.path
    /\ rf.twice = rf.once

HasMatch(re, s) == \E p \in 1..Len(s) : MatchLen(re, s, p) > 0

Occurrences(s, c) == Cardinality({n \in 1..Len(s) : s[n] = c})

\* the characters that are neither part of a match nor of a replacement
Other(s, chars) == SelectSeq(s, LAMBDA c : c \notin chars)

\* C16: RegexFormatter::format replaces every match of the regular
\* expression, leftmost first and not overlapping, with the replacement and
\* leaves the other characters as they are: the result has no match left,
\* has the other characters in their order, is shorter by what the matches
\* lost, and is the path itself when the path has no match; /users/<uuid>
\* gives /users/* and /users/42 gives /users/:id; the pass-through formatter
\* returns the path.
C16_ReplacesEveryMatch ==
    rf.stage \in {"once", "twice"} =>
        /\ rf.formatter = "passthrough" => rf.once = rf.path
        /\ rf.formatter \in {"uuid", "legacy"} =>
              /\ ~HasMatch(UUID_REGEX, rf.path) => rf.once = rf.path
              /\ ~HasMatch(UUID_REGEX, rf.once)
              /\ Other(rf.once, HexChars \cup {"-", "*"})
                    = Other(rf.path, HexChars \cup {"-", "*"})
              /\ (Len(rf.path) - Len(rf.once))
                    = (Len(Uuid) - 1)
                        * (Occurrences(rf.once, "*") - Occurrences(rf.path, "*"))
              /\ rf.path = UsersPath \o Uuid => rf.once = UsersPath \o <<"*">>
        /\ rf.formatter = "numeric" =>
              /\ ~HasMatch(DIGITS_REGEX, rf.path) => rf.once = rf.path
              /\ ~HasMatch(DIGITS_REGEX, rf.once)
              /\ Other(rf.once, DigitChars \cup {":", "i", "d"})
                    = Other(rf.path, DigitChars \cup {":", "i", "d"})
              /\ rf.path = UsersPath \o <<"4", "2">>
                    => rf.once = UsersPath \o <<":", "i", "d">>

\* a path with two UUIDs and text between them, both replaced
C16_Witness ==
    /\ rf.stage = "once" /\ rf.formatter = "uuid"
    /\ rf.path = Uuid \o UsersPath \o Uuid
    /\ rf.once = <<"*">> \o UsersPath \o <<"*">>

(***************************************************************************)
(* Route labels.                                                           *)
(***************************************************************************)
\* the value of the attribute the span has under the key
AttributeOf(span, key) ==
    LET n == CHOOSE k \in 1..Len(span.attrs) : span.attrs[k][1] = key
    IN  span.attrs[n][2]

HasKey(span, key) == \E k \in 1..Len(span.attrs) : span.attrs[k][1] = key

\* C17: GET /users/<uuid>?a=1 without trace headers, matched by a route with
\* a parameter, with the UUID wildcard formatter configured: the server span
\* has the method GET and the route label /users/*, its status is unset when
\* the handler has returned 200, and it is ended then and not before.
C17_SimpleGet ==
    \A i \in 1..Len(srv) :
        (/\ srv[i].line = UsersRequest
         /\ srv[i].headers = EmptyHeaders
         /\ route_formatter = "uuid") =>
            /\ ServerSpan(i).kind = "server"
            /\ ServerSpan(i).parent = RootContext
            /\ HasAttribute(ServerSpan(i), "http.method", "GET")
            /\ HasKey(ServerSpan(i), "http.route")
            /\ AttributeOf(ServerSpan(i), "http.route") = UsersPath \o <<"*">>
            /\ srv[i].pc = "called" => ~ServerSpan(i).ended
            /\ (srv[i].pc = "done" /\ srv[i].res = Ok(200)) =>
                  /\ ServerSpan(i).status = Unset
                  /\ ServerSpan(i).ended

\* C18: the route label the metrics middleware records for a request is the
\* route label the tracing middleware of trace.rs puts on the span, with the
\* same formatter: the formatted pattern, or the same placeholder when no
\* route matched.
C18_SameRouteLabel ==
    \A k \in 1..Len(met) :
        middleware = "trace" =>
            /\ HasKey(ServerSpan(met[k].inner), "http.route")
            /\ met[k].attributes[1][1] = "http.route"
            /\ met[k].attributes[1][2]
                  = AttributeOf(ServerSpan(met[k].inner), "http.route")

(***************************************************************************)
(* The client request tracer: attributes and parent.                       *)
(***************************************************************************)
RECURSIVE Flatten(_)
Flatten(batches) ==
    IF batches = <<>> THEN <<>> ELSE batches[1] \o Flatten(Tail(batches))

\* the places of the span's attributes that hold the pair
Places(span, pair) == {n \in 1..Len(span.attrs) : span.attrs[n] = pair}

\* C19: the client span is created with every attribute the caller supplied
\* through with_attributes, in the order of the calls, followed by the
\* standard attributes: server.address, http.request.method and url.full
\* always, the others under their conditions; no call takes away or replaces
\* an attribute of an earlier call or a standard one, one under the same key
\* included.
C19_AttributesKept ==
    \A j \in 1..Len(cli) :
        cli[j].span # 0 =>
            LET supplied == Flatten(cli[j].supplied)
                attrs == ClientSpan(j).attrs
                n == Len(supplied)
                uri == cli[j].request.uri
            IN  /\ Len(attrs) >= n + 3
                /\ SubSeq(attrs, 1, n) = supplied
                /\ attrs[n + 1] = <<"server.address",
                                    IF uri.host.some THEN uri.host.v ELSE "unknown">>
                /\ attrs[n + 2] = <<"http.request.method", cli[j].request.method>>
                /\ attrs[n + 3][1] = "url.full"
                /\ attrs[n + 3][2].path = uri.path
                /\ (\E k \in (n + 4)..Len(attrs) : attrs[k][1] = "server.port")
                      <=> (uri.port.some /\ uri.port.v \notin {80, 443})
                /\ (\E k \in (n + 4)..Len(attrs) : attrs[k][1] = "user_agent.original")
                      <=> "user-agent" \in DOMAIN cli[j].request_headers
                /\ (\E k \in (n + 4)..Len(attrs) :
                        attrs[k] = <<"messaging.message.body.size", 42>>)
                      <=> "content-length" \in DOMAIN cli[j].request_headers
                /\ cli[j].attrs = <<>>

\* two calls, the second under the key of a standard attribute: the span
\* has the attribute of the caller and the standard one
C19_Witness ==
    \E j \in 1..Len(cli) :
        /\ cli[j].span # 0
        /\ cli[j].supplied = <<<<<<"tenant", "a">>, <<"dye-key", "other">>>>,
                                <<<<"server.address", "shadow">>>>>>
        /\ ClientSpan(j).attrs[3] = <<"server.address", "shadow">>
        /\ ClientSpan(j).attrs[4] = <<"server.address", "example.com">>

\* C20: the parent of the client span is the context given to
\* trace_request_with_context or, for trace_request, the context that was
\* current when trace_request was called: inside the handler of trace.rs the
\* context of its server span, outside of any request the root context;
\* the context that is current when the request is sent does not matter.
C20_ParentFixedAtWrap ==
    \A j \in 1..Len(cli) :
        /\ cli[j].how = "given" => cli[j].cx \in GivenContexts
        /\ (cli[j].how = "current" /\ cli[j].task = 0 /\ middleware = "trace")
              => cli[j].cx = RootContext
        /\ (cli[j].how = "current" /\ cli[j].task # 0 /\ middleware = "trace")
              => cli[j].cx = ServerSpan(cli[j].task).cx
        /\ cli[j].span # 0 =>
              /\ ClientSpan(j).parent = cli[j].cx
              /\ IsValid(cli[j].cx) => ClientSpan(j).cx.trace = cli[j].cx.trace

\* a request wrapped with trace_request in a handler and sent where another
\* context is current
C20_Witness ==
    \E j \in 1..Len(cli) :
        /\ cli[j].span # 0 /\ cli[j].how = "current" /\ cli[j].task # 0
        /\ cli[j].at_send # cli[j].cx
        /\ ClientSpan(j).parent = cli[j].cx
        /\ ClientSpan(j).parent # RootContext

\* the authority of a URI: the host, and the port when the URI names one
Authority(uri) ==
    <<IF uri.host.some THEN uri.host.v ELSE "">>
        \o (IF uri.port.some THEN <<":", uri.port.v>> ELSE <<>>)

\* "{method} {scheme}://{authority}{path}"
MethodAndUrl(request) ==
    <<request.method, " ", request.uri.scheme, "://">>
        \o Authority(request.uri) \o <<request.uri.path>>

\* C21: the client span has kind client; its name is
\* "{method} {scheme}://{authority}{path}" of the outbound request unless
\* with_span_namer was called, and then the result of the naming function
\* supplied last, applied to the request.
C21_ClientSpanName ==
    \A j \in 1..Len(cli) :
        cli[j].span # 0 =>
            /\ ClientSpan(j).kind = "client"
            /\ ClientSpan(j).name =
                  IF cli[j].namers = <<>> THEN MethodAndUrl(cli[j].request)
                  ELSE ApplyNamer(cli[j].namers[Len(cli[j].namers)],
                                  cli[j].request)

\* C21, what the code does: the default name is "{method} {host}"; the kind
\* and the naming function supplied last are as stated.
C21_ClientSpanNameAsBuilt ==
    \A j \in 1..Len(cli) :
        cli[j].span # 0 =>
            /\ ClientSpan(j).kind = "client"
            /\ ClientSpan(j).name =
                  IF cli[j].namers = <<>> THEN DefaultSpanNamer(cli[j].request)
                  ELSE ApplyNamer(cli[j].namers[Len(cli[j].namers)],
                                  cli[j].request)

\* the calls a tracer made on the span after it started it
Writes(span) == {n \in 1..Len(span.log) : span.log[n] # "end"}

\* C22: every attribute write and status write a tracer makes to a span is
\* made before the span's end and none after it, on the success path and on
\* the failure path, for the server tracer and for the client tracer: the
\* end is the last call on the span, and what was written on the way is on
\* the span.
C22_WritesBeforeEnd ==
    /\ \A id \in 1..Len(spans) :
          LET log == spans[id].log
          IN  /\ \A n \in 1..Len(log) : log[n] = "end" => n = Len(log)
              /\ spans[id].ended = (log # <<>> /\ log[Len(log)] = "end")
    /\ \A i \in 1..Len(srv) :
          (srv[i].pc = "done" /\ srv[i].res.ok) =>
              HasAttribute(ServerSpan(i), "http.status_code", srv[i].res.status)
    /\ \A i \in 1..Len(srv) :
          (srv[i].pc = "done" /\ ~srv[i].res.ok /\ middleware = "trace") =>
              ServerSpan(i).status.description = Debug(srv[i].res.err)
    /\ \A j \in 1..Len(cli) :
          (cli[j].pc = "done" /\ cli[j].res.ok) =>
              HasAttribute(ClientSpan(j), "http.response.status_code",
                           cli[j].res.status)
    /\ \A j \in 1..Len(cli) :
          (cli[j].pc = "done" /\ ~cli[j].res.ok) =>
              ClientSpan(j).status.description = Debug(cli[j].res.err)

\* a server span ended on the failure path and a client span ended on the
\* success path, each after writes
C22_Witness ==
    \E i \in 1..Len(srv), j \in 1..Len(cli) :
        /\ srv[i].pc = "done" /\ ~srv[i].res.ok
        /\ cli[j].pc = "done" /\ cli[j].res.ok
        /\ ServerSpan(i).ended /\ Writes(ServerSpan(i)) # {}
        /\ ClientSpan(j).ended /\ Cardinality(Writes(ClientSpan(j))) = 2

\* C23: each outcome of a request sets the span's status exactly once: for
\* every server span and every client span whose request has resolved, to a
\* success response, an error-status response or a failure, the tracer has
\* made exactly one status write to the span, and none before the outcome.
C23_StatusSetOnce ==
    /\ \A i \in 1..Len(srv) :
          Count(ServerSpan(i).log, "set_status")
              = IF srv[i].pc = "done" THEN 1 ELSE 0
    /\ \A j \in 1..Len(cli) :
          cli[j].span # 0 =>
              Count(ClientSpan(j).log, "set_status")
                  = IF cli[j].pc = "done" THEN 1 ELSE 0

\* C24: when the inner service resolves to an Err, the server tracer sets the
\* span status to error with the error's debug representation as the
\* description and only then ends the span; it writes no response status
\* code attribute.
C24_ErrSetsErrorStatus ==
    \A i \in 1..Len(srv) :
        (srv[i].pc = "done" /\ ~srv[i].res.ok) =>
            LET span == ServerSpan(i)
                n == Len(span.log)
            IN  /\ IsErrorStatus(span.status)
                /\ span.status.description = Debug(srv[i].res.err)
                /\ n >= 2 /\ span.log[n - 1] = "set_status" /\ span.log[n] = "end"
                /\ ~HasKey(span, "http.status_code")

\* C25: the server tracer's steps are in order for every request: the parent
\* context is extracted from the inbound headers before the span is started,
\* so the span is the child of what the headers carry; the span is started
\* before the inner service is called; the response attributes and the status
\* are written and the span ended only after the inner service has resolved.
C25_ServerStepOrder ==
    \A i \in 1..Len(srv) :
        LET span == ServerSpan(i)
            extracted == ExtractSpanContext(propagator, srv[i].headers)
        IN  /\ span.parent = extracted
            /\ IsValid(extracted) =>
                  span.cx.trace = extracted.trace /\ span.cx.span # extracted.span
            /\ srv[i].delegated
            /\ srv[i].pc = "called" =>
                  /\ ~span.ended
                  /\ Count(span.log, "end") = 0
                  /\ Count(span.log, "set_status") = 0
                  /\ span.status = Unset
                  /\ ~HasKey(span, "http.status_code")
                  /\ ~HasKey(span, "http.status_text")
            /\ srv[i].pc = "done" =>
                  /\ span.ended
                  /\ srv[i].res.ok => HasKey(span, "http.status_code")

\* a request that carries a parent, its span started and the inner service
\* not yet resolved, beside a request that has resolved
C25_Witness ==
    \E i, k \in 1..Len(srv) :
        /\ srv[i].pc = "called"
        /\ IsValid(ServerSpan(i).parent) /\ ServerSpan(i).parent.remote
        /\ ~ServerSpan(i).ended
        /\ srv[k].pc = "done" /\ ServerSpan(k).ended

\* C26: the client tracer's steps are in order for every traced send: no
\* span before the send is asked for; the span is started with its full
\* attribute set, the attributes supplied and the standard ones, before the
\* context is injected, so the headers of the request handed to the transport
\* carry the span's own context; the request is handed over only when the
\* injection has completed; the outcome is recorded and the span ended only
\* after the send has resolved.
C26_ClientStepOrder ==
    \A j \in 1..Len(cli) :
        LET full == Flatten(cli[j].supplied)
                        \o ClientAttributes(cli[j].request, cli[j].request_headers)
        IN  /\ cli[j].pc = "wrapped" => cli[j].span = 0 /\ ~cli[j].sent
            /\ cli[j].pc = "panicked" => ~cli[j].sent /\ ~ClientSpan(j).ended
            /\ cli[j].pc \in {"sending", "done"} =>
                  /\ cli[j].sent
                  /\ ClientSpan(j).kind = "client"
                  /\ Len(ClientSpan(j).attrs) >= Len(full)
                  /\ SubSeq(ClientSpan(j).attrs, 1, Len(full)) = full
                  /\ StandardPropagation =>
                        Propagated(ExtractSpanContext(propagator, cli[j].headers))
                            = Propagated(ClientSpan(j).cx)
            /\ cli[j].pc = "sending" =>
                  /\ ClientSpan(j).attrs = full
                  /\ ClientSpan(j).log = <<>>
                  /\ ~ClientSpan(j).ended
                  /\ cli[j].ret = Pending
            /\ cli[j].pc = "done" =>
                  /\ ClientSpan(j).ended
                  /\ Count(ClientSpan(j).log, "set_status") = 1
                  /\ ClientSpan(j).log[Len(ClientSpan(j).log)] = "end"

\* a request with attributes of the caller, sent and not yet resolved: the
\* span is started and not ended, the headers carry its context
C26_Witness ==
    \E j \in 1..Len(cli) :
        /\ cli[j].pc = "sending" /\ cli[j].supplied # <<>>
        /\ "content-length" \in DOMAIN cli[j].request_headers
        /\ ~ClientSpan(j).ended
        /\ ExtractSpanContext(propagator, cli[j].headers).span = cli[j].span

\* C27: the metrics middleware records the request size exactly once per
\* request, at entry: the measurement is there while the inner service has
\* not resolved and stays the only one when it has, to a response or to an
\* error; its value is the number the Content-Length header holds, and 0 when
\* the header is absent or holds no number.
C27_RequestSizeAtEntry ==
    /\ Len(metrics.http_server_request_size) = Len(met)
    /\ \A k \in 1..Len(met) :
          LET h == met[k].headers
              digits == "content-length" \in DOMAIN h
                            /\ h["content-length"] # <<>>
                            /\ \A n \in 1..Len(h["content-length"]) :
                                  h["content-length"][n] \in 0..9
          IN  /\ metrics.http_server_request_size[k].attributes = met[k].attributes
              /\ metrics.http_server_request_size[k].value
                    = IF digits THEN DecimalValue(h["content-length"]) ELSE 0
              /\ met[k].inner \in 1..Len(srv)

\* a request whose Content-Length is no number and whose handler failed, its
\* size recorded as 0
C27_Witness ==
    \E k \in 1..Len(met) :
        /\ met[k].pc = "done" /\ ~met[k].res.ok
        /\ "content-length" \in DOMAIN met[k].headers
        /\ met[k].headers["content-length"] = <<DASH, 1>>
        /\ metrics.http_server_request_size[k].value = 0

\* the text of the families before the first one the encoder refuses
RECURSIVE Encoded(_)
Encoded(registry) ==
    IF registry = <<>> \/ ~registry[1].valid THEN <<>>
    ELSE registry[1].text \o Encoded(Tail(registry))

Refused(registry) == {n \in 1..Len(registry) : ~registry[n].valid}

\* C28: the Prometheus handler never fails a scrape because of a telemetry
\* error: for every registry, one whose encoding fails included, the handler
\* resolves to Ok with status 200; the encoding error goes to the global error
\* handler and nowhere else; the body is what was encoded.
C28_ScrapeNeverFails ==
    /\ \A n \in 1..Len(scrape.answered) :
          LET a == scrape.answered[n]
          IN  /\ a.ret = Ok(200)
              /\ a.body = Encoded(a.registry)
              /\ Len(a.handled) = IF Refused(a.registry) = {} THEN 0 ELSE 1
    /\ Len(scrape.handled)
          = Cardinality({n \in 1..Len(scrape.answered) :
                            Refused(scrape.answered[n].registry) # {}})

\* a scrape of a registry whose second family the encoder refuses: answered
\* 200 with the text of the first, the error reported
C28_Witness ==
    \E n \in 1..Len(scrape.answered) :
        LET a == scrape.answered[n]
        IN  /\ Len(a.registry) >= 2 /\ a.registry[1].valid /\ ~a.registry[2].valid
            /\ a.ret = Ok(200)
            /\ a.body = a.registry[1].text
            /\ a.handled = <<"empty">>

\* C29: the tracer ends a server span only from the completion step of the
\* inner service: while the inner service is pending, and when the request's
\* future has been dropped before the inner service resolved, the tracer has
\* made no status write and no end call on the span, which stays as it was
\* started; a span is ended exactly when its inner service has resolved.
C29_EndOnlyOnCompletion ==
    \A i \in 1..Len(srv) :
        /\ srv[i].pc \in {"called", "dropped"} =>
              /\ Count(ServerSpan(i).log, "end") = 0
              /\ Count(ServerSpan(i).log, "set_status") = 0
              /\ ~ServerSpan(i).ended
              /\ ServerSpan(i).status = Unset
              /\ srv[i].ret = Pending
        /\ ServerSpan(i).ended = (srv[i].pc = "done")

\* a request dropped before its inner service resolved, its span started and
\* not ended, beside a request that resolved and whose span is ended
C29_Witness ==
    \E i, k \in 1..Len(srv) :
        /\ srv[i].pc = "dropped" /\ ~ServerSpan(i).ended
        /\ srv[k].pc = "done" /\ ServerSpan(k).ended

\* the requests with the attributes that the metrics middleware has seen
\* enter and whose inner service has not resolved
InFlight(attributes) ==
    {k \in 1..Len(met) : met[k].attributes = attributes /\ met[k].pc # "done"}

\* C30: the active-requests gauge is taken down with exactly the attributes
\* it was put up with, the status code being appended after; in every state
\* and for every attribute set its value is the number of requests with these
\* attributes that have entered and not resolved, never negative; a request
\* whose future was dropped before the inner service resolved is never taken
\* down.
C30_GaugeIsInFlight ==
    /\ \A n \in 1..Len(metrics.http_server_active_requests) :
          LET m == metrics.http_server_active_requests[n]
          IN  /\ \E k \in 1..Len(met) : m.attributes = met[k].attributes
              /\ \A p \in 1..Len(m.attributes) :
                    m.attributes[p][1] # "http.response.status_code"
    /\ \A k \in 1..Len(met) :
          LET a == met[k].attributes
              value == CounterValue(metrics.http_server_active_requests, a)
          IN  /\ value = Cardinality(InFlight(a))
              /\ value >= 0
              /\ met[k].pc = "dropped" => value >= 1
    /\ Cardinality({n \in 1..Len(metrics.http_server_active_requests) :
                       metrics.http_server_active_requests[n].value = -1})
          = Cardinality({k \in 1..Len(met) : met[k].pc = "done"})

\* two requests with the same attributes, one answered and one dropped: the
\* gauge stays at 1
C30_Witness ==
    \E k, n \in 1..Len(met) :
        /\ met[k].pc = "dropped"
        /\ met[n].pc = "done" /\ met[n].res.ok
        /\ met[n].attributes = met[k].attributes
        /\ CounterValue(metrics.http_server_active_requests, met[k].attributes) = 1

\* the step is the completion of the request that owns a span: its inner
\* service or its send resolves
Completes(owner) ==
    IF owner[1] = "srv"
    THEN srv[owner[2]].pc = "called" /\ srv'[owner[2]].pc = "done"
    ELSE cli[owner[2]].pc = "sending" /\ cli'[owner[2]].pc = "done"

\* C31: with several requests in flight on one worker, the completion of a
\* request, with either outcome, writes (attributes, status, end) to the span
\* of that request only: in every step, under every interleaving, a span that
\* changes is the span of the request that completes in the step, that span
\* is written to and ended by the step, and every other span, started or
\* ended or still in flight, is left as it was.
C31_OwnSpanOnly ==
    [][/\ Len(spans') >= Len(spans)
       /\ \A s \in 1..Len(spans) :
             /\ spans'[s] # spans[s] =>
                   /\ Completes(spans[s].owner)
                   /\ \A t \in 1..Len(spans) : t # s => spans'[t] = spans[t]
             /\ Completes(spans[s].owner) =>
                   /\ ~spans[s].ended /\ spans'[s].ended
                   /\ Len(spans'[s].log) > Len(spans[s].log)
                   /\ SubSeq(spans'[s].log, 1, Len(spans[s].log)) = spans[s].log
                   /\ spans'[s].cx = spans[s].cx
                   /\ spans'[s].owner = spans[s].owner]_vars

\* a request that arrived second has completed and its span has been ended
\* while the request that arrived first is still in flight, its span not
\* ended and without a status; and the same with an outbound request sent
\* from the inner service of an inbound request still in flight
C31_Witness ==
    \/ \E i, k \in 1..Len(srv) :
          /\ i < k
          /\ srv[i].pc = "called" /\ srv[k].pc = "done"
          /\ ServerSpan(k).ended /\ ~ServerSpan(i).ended
          /\ Count(ServerSpan(i).log, "set_status") = 0
          /\ Count(ServerSpan(i).log, "end") = 0
    \/ \E i \in 1..Len(srv), j \in 1..Len(cli) :
          /\ srv[i].pc = "called" /\ cli[j].pc = "done" /\ cli[j].task = i
          /\ ClientSpan(j).ended /\ ~ServerSpan(i).ended
          /\ Count(ServerSpan(i).log, "end") = 0

\* the calls each path of the send makes on the span
SuccessPath == <<"set_status", "set_attribute", "end">>
FailurePath == <<"set_status", "end">>

\* C32: wrapping an outbound request (trace_request,
\* trace_request_with_context, with_attributes, with_span_namer) starts no
\* span and leaves every header of the request as it was; a send starts
\* exactly one span, a client span; that span is not ended while the send is
\* pending and is ended exactly once when the send has resolved, by the calls
\* of the success path or by those of the failure path, never by both.
C32_WrapStartsNothing ==
    /\ Len(spans) = Len(srv) + Cardinality({j \in 1..Len(cli) : cli[j].pc # "wrapped"})
    /\ \A j \in 1..Len(cli) :
          /\ cli[j].pc = "wrapped" =>
                /\ SpansOf(<<"cli", j>>) = {}
                /\ cli[j].span = 0
                /\ cli[j].headers = cli[j].request_headers
          /\ cli[j].pc # "wrapped" =>
                /\ SpansOf(<<"cli", j>>) = {cli[j].span}
                /\ ClientSpan(j).kind = "client"
          /\ cli[j].pc = "sending" =>
                /\ ~ClientSpan(j).ended
                /\ ClientSpan(j).log = <<>>
          /\ cli[j].pc = "done" =>
                /\ ClientSpan(j).ended
                /\ Count(ClientSpan(j).log, "end") = 1
                /\ ClientSpan(j).log =
                      IF cli[j].res.ok THEN SuccessPath ELSE FailurePath

\* a request with headers was wrapped with a context the caller gave, then
\* given attributes and a naming function, then sent, and its send has failed:
\* its one span is ended
C32_Witness ==
    \E j \in 1..Len(cli) :
        /\ cli[j].how = "given" /\ IsValid(cli[j].cx)
        /\ cli[j].request_headers # EmptyHeaders
        /\ cli[j].supplied # <<>> /\ cli[j].namers # <<>>
        /\ cli[j].pc = "done" /\ ~cli[j].res.ok
        /\ ClientSpan(j).ended

====
